---- MODULE Spec2Model ----
(***************************************************************************)
(* Model of src/src/lib/realNumberMath.ts (study-flow-analytics).          *)
(*                                                                         *)
(* Numbers.  A finite JavaScript number is modelled as an integer count of *)
(* Unit = 10^-7, so that every decimal literal with at most 7 decimals is  *)
(* exact (1.5 is 15000000, 3.1234567 is 31234567).  A quotient the code    *)
(* forms before rounding is kept as an exact fraction (numerator and       *)
(* denominator) until toFixed rounds it; a product of two numbers is kept  *)
(* exactly in three base-10^4 limbs, because the integers of the checker   *)
(* are 32 bits wide and a square of a 7-decimal number is not.             *)
(* Number.prototype.toFixed rounds the exact value to the nearest decimal  *)
(* and takes the one away from zero on a tie.  The arithmetic of the model *)
(* is exact; the inputs are chosen so that a binary floating-point         *)
(* evaluation rounds to the same decimals (no result lies halfway between  *)
(* two decimals unless it is exact in binary, as 0.0078125 = 2^-7 is).     *)
(*                                                                         *)
(* State.  The library keeps no state of its own; the state of the model   *)
(* is the caller's: the function it called last, the arguments it passed   *)
(* and the value it got back, and the arrays that exist: heap is the       *)
(* sequence of the arrays allocated, an array's reference is its position  *)
(* in heap, and ref is the reference a call returned (0 when it returned   *)
(* a number or a record).  args holds the contents of the arguments as     *)
(* they were when the call was made.                                       *)
(*                                                                         *)
(* The page.  db is the table study_sessions, net the requests the page   *)
(* awaits (each handler is a step up to its first await and a step for    *)
(* each await that settles), edge the requests the edge function          *)
(* study-recommendations has in service (one step per await of its        *)
(* handler), dash, form, ai and hist the state of the components, saved   *)
(* the PDF last written and toast the message last shown.                 *)
(*                                                                         *)
(* Specifications.  Spec: the calls of the library on session metrics.     *)
(* SpecHuge: the calls of the library on numbers near the largest double,  *)
(* where sums and products overflow.  SpecViews: the dashboard's cards     *)
(* (StudyStats.tsx) and the export of the report (handleExportPDF and      *)
(* generateStudyPDF).  SpecServer: the edge function.  SpecForm: the       *)
(* session form and the insert.  SpecAdvice: the recommendations, from     *)
(* the button to the function and back, and the export.  SpecGateway: the  *)
(* function serving the page and another client.  SpecDelete, SpecEdit and *)
(* SpecWeek: the weekly history.  SpecBusy: the handlers that hold a busy  *)
(* flag, with the awaited requests settling.                               *)
(***************************************************************************)
EXTENDS Integers, Sequences, FiniteSets, TLC

VARIABLES fn, args, ret, heap, ref, frames,
          db, net, edge, dash, form, ai, hist, saved, toast

vars ==
    <<fn, args, ret, heap, ref, frames,
      db, net, edge, dash, form, ai, hist, saved, toast>>

\* the state of one caller of the library
caller == <<fn, args, ret, heap, ref>>

\* the rest of the state
others == <<frames, db, net, edge, dash, form, ai, hist, saved, toast>>

\* the state of the page and of the table behind it
page == <<db, net, edge, dash, form, ai, hist, saved, toast>>

(***************************************************************************)
(* Fixed-point arithmetic                                                  *)
(***************************************************************************)
Unit == 10 ^ 7

Limb == 10 ^ 4

Abs(a) == IF a < 0 THEN -a ELSE a

Sign(a) == IF a < 0 THEN -1 ELSE 1

\* -1, 0 or 1
Sgn(a) == IF a < 0 THEN -1 ELSE IF a > 0 THEN 1 ELSE 0

RECURSIVE Pow10(_)
Pow10(k) == IF k = 0 THEN 1 ELSE 10 * Pow10(k - 1)

\* a / b rounded to the nearest integer, a tie going away from zero (b > 0)
RoundHalfAway(a, b) == Sign(a) * ((2 * Abs(a) + b) \div (2 * b))

\* parseFloat(x.toFixed(digits)) for x = num / den units (den > 0)
ToFixed(num, den, digits) ==
    LET step == Pow10(7 - digits)
    IN  RoundHalfAway(num, den * step) * step

\* a * b, exactly, as <<h, m, l>> standing for h * Limb^2 + m * Limb + l
WideMul(a, b) ==
    LET s  == Sign(a) * Sign(b)
        ah == Abs(a) \div Limb
        al == Abs(a) % Limb
        bh == Abs(b) \div Limb
        bl == Abs(b) % Limb
    IN  <<s * ah * bh, s * (ah * bl + al * bh), s * al * bl>>

WideZero == <<0, 0, 0>>

WideAdd(x, y) == <<x[1] + y[1], x[2] + y[2], x[3] + y[3]>>

WideScale(k, x) == <<k * x[1], k * x[2], k * x[3]>>

\* the floor of x / Limb^2
WideFloor(x) == x[1] + ((x[2] + (x[3] \div Limb)) \div Limb)

WideSign(x) == IF WideFloor(x) < 0 THEN -1 ELSE 1

\* parseFloat(q.toFixed(digits)) for q = x / den, x a product (den > 0):
\* in units q is x / (Unit * den), which is rounded to a multiple of step
WideToFixed(x, den, digits) ==
    LET step  == Pow10(7 - digits)
        scale == den * ((((Unit \div Limb) * step)) \div Limb)
        twice == WideFloor(WideScale(2 * WideSign(x), x))
    IN  WideSign(x) * ((twice + scale) \div (2 * scale)) * step

\* floor(a * 10^k / b) and the remainder, by long division (a >= 0, b > 0)
RECURSIVE LongDiv(_, _, _)
LongDiv(a, b, k) ==
    IF k = 0 THEN <<a \div b, a % b>>
    ELSE LET p == LongDiv(a, b, k - 1)
         IN  <<p[1] * 10 + ((p[2] * 10) \div b), (p[2] * 10) % b>>

\* parseFloat((a / b).toFixed(digits)) for numbers a, b (b # 0)
QuotientToFixed(a, b, digits) ==
    LET num == Sign(b) * a
        den == Abs(b)
        p   == LongDiv(Abs(num), den, digits)
        n   == IF 2 * p[2] >= den THEN p[1] + 1 ELSE p[1]
    IN  Sign(num) * n * Pow10(7 - digits)

\* the floor of the square root of n, by bisection (lo^2 <= n < hi^2)
RECURSIVE IsqrtSearch(_, _, _)
IsqrtSearch(n, lo, hi) ==
    IF hi - lo <= 1 THEN lo
    ELSE LET mid == (lo + hi) \div 2
         IN  IF mid * mid <= n THEN IsqrtSearch(n, mid, hi)
                               ELSE IsqrtSearch(n, lo, mid)

Isqrt(n) == IsqrtSearch(n, 0, 46341)

\* parseFloat(Math.sqrt(v).toFixed(4)) for a number v >= 0: in units of
\* 10^-4 the root of v / Unit is sqrt(10 * v), and round(x) is
\* floor((floor(2x) + 1) / 2)
SqrtToFixed4(v) == ((Isqrt(40 * v) + 1) \div 2) * Pow10(3)

(***************************************************************************)
(* The library                                                             *)
(***************************************************************************)
\* a JavaScript number that may be NaN or infinite (createReal's argument)
Finite(v) == [kind |-> "finite", v |-> v]

NaN == [kind |-> "NaN", v |-> 0]

PosInfinity == [kind |-> "Infinity", v |-> 0]

NegInfinity == [kind |-> "-Infinity", v |-> 0]

isNaN(value) == value.kind = "NaN"

isFinite(value) == value.kind = "finite"

\* mutant: the negative check written value <= 0
createReal_RejectsZero(value) ==
    IF isNaN(value)
    THEN [value |-> 0, isValid |-> FALSE, errorMessage |-> "Value is NaN"]
    ELSE IF ~isFinite(value)
    THEN [value |-> 0, isValid |-> FALSE, errorMessage |-> "Value is Infinity"]
    ELSE IF value.v <= 0
    THEN [value |-> 0, isValid |-> FALSE,
          errorMessage |-> "Negative values not allowed"]
    ELSE [value |-> ToFixed(value.v, 1, 6), isValid |-> TRUE]

\* mutant: the decimals after the sixth dropped instead of rounded
createReal_Truncates(value) ==
    IF isNaN(value)
    THEN [value |-> 0, isValid |-> FALSE, errorMessage |-> "Value is NaN"]
    ELSE IF ~isFinite(value)
    THEN [value |-> 0, isValid |-> FALSE, errorMessage |-> "Value is Infinity"]
    ELSE IF value.v < 0
    THEN [value |-> 0, isValid |-> FALSE,
          errorMessage |-> "Negative values not allowed"]
    ELSE [value |-> (value.v \div 10) * 10, isValid |-> TRUE]

createReal(value) ==
    IF isNaN(value)
    THEN [value |-> 0, isValid |-> FALSE, errorMessage |-> "Value is NaN"]
    ELSE IF ~isFinite(value)
    THEN [value |-> 0, isValid |-> FALSE, errorMessage |-> "Value is Infinity"]
    ELSE IF value.v < 0
    THEN [value |-> 0, isValid |-> FALSE,
          errorMessage |-> "Negative values not allowed"]
    ELSE [value |-> ToFixed(value.v, 1, 6), isValid |-> TRUE]

\* mutant: the upper bound tested before the lower one
clampReal_UpperFirst(value, min, max) ==
    IF value > max THEN max
    ELSE IF value < min THEN min
    ELSE value

clampReal(value, min, max) ==
    IF value < min THEN min
    ELSE IF value > max THEN max
    ELSE value

\* the loop of calculateMean: sum = sum + values[i]
RECURSIVE SumLoop(_, _, _)
SumLoop(values, i, sum) ==
    IF i > Len(values) THEN sum
    ELSE SumLoop(values, i + 1, sum + values[i])

\* mutant: the loop starts at i = 1 and misses values[0]
calculateMean_SkipFirst(values) ==
    IF Len(values) = 0 THEN 0
    ELSE LET sum == SumLoop(values, 2, 0)
         IN  ToFixed(sum, Len(values), 4)

\* mutant: toFixed(2)
calculateMean_TwoDecimals(values) ==
    IF Len(values) = 0 THEN 0
    ELSE LET sum == SumLoop(values, 1, 0)
         IN  ToFixed(sum, Len(values), 2)

calculateMean(values) ==
    IF Len(values) = 0 THEN 0
    ELSE LET sum == SumLoop(values, 1, 0)
         IN  ToFixed(sum, Len(values), 4)

RECURSIVE SupLoop(_, _, _)
SupLoop(values, i, sup) ==
    IF i > Len(values) THEN sup
    ELSE SupLoop(values, i + 1, IF values[i] > sup THEN values[i] ELSE sup)

\* mutant: the scan starts from 0 instead of values[0]
findSupremum_FromZero(values) ==
    IF Len(values) = 0 THEN 0
    ELSE SupLoop(values, 1, 0)

findSupremum(values) ==
    IF Len(values) = 0 THEN 0
    ELSE SupLoop(values, 2, values[1])

RECURSIVE InfLoop(_, _, _)
InfLoop(values, i, inf) ==
    IF i > Len(values) THEN inf
    ELSE InfLoop(values, i + 1, IF values[i] < inf THEN values[i] ELSE inf)

\* mutant: -1 as the "no data" answer
findInfimum_EmptySentinel(values) ==
    IF Len(values) = 0 THEN -Unit
    ELSE InfLoop(values, 2, values[1])

findInfimum(values) ==
    IF Len(values) = 0 THEN 0
    ELSE InfLoop(values, 2, values[1])

\* mutant: alpha clamped into [0, 1] before use
movingAverage_ClampedAlpha(previousAverage, newValue, alpha) ==
    LET a == clampReal(alpha, 0, Unit)
        smoothed == WideAdd(WideMul(Unit - a, previousAverage),
                            WideMul(a, newValue))
    IN  WideToFixed(smoothed, 1, 4)

\* the default of the parameter alpha: 0.3
DefaultAlpha == 3 * (Unit \div 10)

\* (1 - alpha) * previousAverage + alpha * newValue, rounded to 4 decimals
movingAverage(previousAverage, newValue, alpha) ==
    LET smoothed == WideAdd(WideMul(Unit - alpha, previousAverage),
                            WideMul(alpha, newValue))
    IN  WideToFixed(smoothed, 1, 4)

\* the loop of simpleIntegration: total += values[i] * interval
RECURSIVE IntegrationLoop(_, _, _, _)
IntegrationLoop(values, interval, i, total) ==
    IF i > Len(values) THEN total
    ELSE IntegrationLoop(values, interval, i + 1,
                         WideAdd(total, WideMul(values[i], interval)))

\* mutant: the elements summed without the interval
simpleIntegration_IgnoresInterval(values, interval) ==
    IF Len(values) = 0 THEN 0
    ELSE LET total == IntegrationLoop(values, Unit, 1, WideZero)
         IN  WideToFixed(total, 1, 4)

\* the default of the parameter interval: 1
DefaultInterval == Unit

simpleIntegration(values, interval) ==
    IF Len(values) = 0 THEN 0
    ELSE LET total == IntegrationLoop(values, interval, 1, WideZero)
         IN  WideToFixed(total, 1, 4)

\* mutant: no guard for max = min; the division by zero gives Infinity, which
\* clampReal takes to 1 (and -Infinity to 0)
normalize_NoGuard(value, min, max) ==
    IF max = min
    THEN [num |-> IF value > min THEN 1 ELSE 0, den |-> 1]
    ELSE LET num == Sign(max - min) * (value - min)
             den == Abs(max - min)
         IN  [num |-> clampReal(num, 0, den), den |-> den]

\* (value - min) / (max - min), not rounded: the exact fraction num / den,
\* den > 0, with clampReal(q, 0, 1) taken on the numerators over den
normalize(value, min, max) ==
    IF max = min THEN [num |-> 0, den |-> 1]
    ELSE LET num == Sign(max - min) * (value - min)
             den == Abs(max - min)
         IN  [num |-> clampReal(num, 0, den), den |-> den]

\* the loop of calculateVariance: diff = values[i] - mean;
\* sumSquaredDiff += diff * diff
RECURSIVE SquaredDiffLoop(_, _, _, _)
SquaredDiffLoop(values, mean, i, sumSquaredDiff) ==
    IF i > Len(values) THEN sumSquaredDiff
    ELSE LET diff == values[i] - mean
         IN  SquaredDiffLoop(values, mean, i + 1,
                             WideAdd(sumSquaredDiff, WideMul(diff, diff)))

calculateVariance(values) ==
    IF Len(values) = 0 THEN 0
    ELSE LET mean == calculateMean(values)
             sumSquaredDiff == SquaredDiffLoop(values, mean, 1, WideZero)
         IN  WideToFixed(sumSquaredDiff, Len(values), 4)

\* mutant: the root cut to 4 decimals instead of rounded
calculateStdDev_Truncated(values) ==
    LET variance == calculateVariance(values)
    IN  Isqrt(10 * variance) * Pow10(3)

calculateStdDev(values) ==
    LET variance == calculateVariance(values)
    IN  SqrtToFixed4(variance)

\* mutant: the difference taken as mean - value
calculateZScore_MeanMinusValue(value, mean, stdDev) ==
    IF stdDev = 0 THEN 0
    ELSE QuotientToFixed(mean - value, stdDev, 4)

calculateZScore(value, mean, stdDev) ==
    IF stdDev = 0 THEN 0
    ELSE QuotientToFixed(value - mean, stdDev, 4)

\* the inner loop of sortReals, j and i counted from 0 as in the source
RECURSIVE SortInner(_, _, _)
SortInner(sorted, i, j) ==
    IF ~(j < Len(sorted) - i - 1) THEN sorted
    ELSE IF sorted[j + 1] > sorted[j + 2]
    THEN SortInner([sorted EXCEPT ![j + 1] = sorted[j + 2],
                                  ![j + 2] = sorted[j + 1]], i, j + 1)
    ELSE SortInner(sorted, i, j + 1)

\* mutant: half of the passes of the outer loop
RECURSIVE SortOuter_HalfPasses(_, _)
SortOuter_HalfPasses(sorted, i) ==
    IF ~(i < Len(sorted) \div 2) THEN sorted
    ELSE SortOuter_HalfPasses(SortInner(sorted, i, 0), i + 1)

RECURSIVE SortOuter(_, _)
SortOuter(sorted, i) ==
    IF ~(i < Len(sorted)) THEN sorted
    ELSE SortOuter(SortInner(sorted, i, 0), i + 1)

\* mutant: one pass of the inner loop only
sortReals_OnePass(values) == SortInner(values, 0, 0)

sortReals(values) == SortOuter(values, 0)

\* mutant: sorted is the argument itself, not a copy of it
sortRealsOnHeap_InPlace(h, values) ==
    [heap |-> [h EXCEPT ![values] = SortOuter(h[values], 0)], ref |-> values]

\* sortReals on the arrays of the heap h, values being the reference of the
\* argument: sorted = [...values] allocates a copy, the loops (sortReals
\* above) exchange the elements of the copy, and the copy's reference is
\* returned
sortRealsOnHeap(h, values) ==
    LET sorted == Len(h) + 1
        copied == Append(h, h[values])
    IN  [heap |-> [copied EXCEPT ![sorted] = sortReals(copied[sorted])],
         ref |-> sorted]

\* mutant: equal neighbours exchanged too
RECURSIVE TrackedInner_SwapsEqual(_, _, _)
TrackedInner_SwapsEqual(sorted, i, j) ==
    IF ~(j < Len(sorted) - i - 1) THEN sorted
    ELSE IF sorted[j + 1].value >= sorted[j + 2].value
    THEN TrackedInner_SwapsEqual([sorted EXCEPT ![j + 1] = sorted[j + 2],
                                                ![j + 2] = sorted[j + 1]],
                                 i, j + 1)
    ELSE TrackedInner_SwapsEqual(sorted, i, j + 1)

\* the loops of sortReals on elements that carry, next to their value, the
\* position they had in the argument: the comparison reads the value only
RECURSIVE TrackedInner(_, _, _)
TrackedInner(sorted, i, j) ==
    IF ~(j < Len(sorted) - i - 1) THEN sorted
    ELSE IF sorted[j + 1].value > sorted[j + 2].value
    THEN TrackedInner([sorted EXCEPT ![j + 1] = sorted[j + 2],
                                     ![j + 2] = sorted[j + 1]], i, j + 1)
    ELSE TrackedInner(sorted, i, j + 1)

RECURSIVE TrackedOuter(_, _)
TrackedOuter(sorted, i) ==
    IF ~(i < Len(sorted)) THEN sorted
    ELSE TrackedOuter(TrackedInner(sorted, i, 0), i + 1)

sortRealsTracked(values) ==
    TrackedOuter([k \in 1 .. Len(values) |->
                     [value |-> values[k], index |-> k]], 0)

(***************************************************************************)
(* The caller: inputs and calls                                            *)
(***************************************************************************)
MaxLen == 4

\* n millionths, in units
Micro(n) == n * 10

\* session metrics as the callers pass them: numbers with up to 6 decimals
\* (-0.5, 0.000069, 0.014211, 0.5, 1.5, 2.0, 3.0).  No mean, variance or
\* integral of up to 5 of them lies halfway between two 4-decimal numbers,
\* where the binary rounding of the operands would decide the result.
Values ==
    {Micro(-500000), Micro(69), Micro(14211), Micro(500000), Micro(1500000),
     Micro(2000000), Micro(3000000)}

RECURSIVE SeqsOfLen(_)
SeqsOfLen(n) ==
    IF n = 0 THEN {<<>>}
    ELSE {Append(s, v) : s \in SeqsOfLen(n - 1), v \in Values}

Sequences == UNION {SeqsOfLen(n) : n \in 0 .. MaxLen}

\* interval widths (1 is the default, 0.5, 2, -1)
Intervals == {Unit, Micro(500000), 2 * Unit, -Unit}

\* scalar arguments of clampReal and normalize (-5, 0, 0.3, 1, 5, 10, 15)
Scalars == {-5 * Unit, 0, Micro(300000), Unit, 5 * Unit, 10 * Unit, 15 * Unit}

\* arguments of calculateZScore: values and means (0.5, 1.75, 3.0, -0.5),
\* deviations (0, 0.9014, 0.25, 1.25, -1.25)
ZValues == {Micro(500000), Micro(1750000), Micro(3000000), Micro(-500000)}

ZDevs == {0, Micro(901400), Micro(250000), Micro(1250000), Micro(-1250000)}

\* arguments of createReal: NaN, the infinities, negative, zero, and
\* non-negative numbers with 7 decimals (0.0000001, 0.0000004, 0.0078125,
\* 3.1234567, 3.1234561), with 6 (0.014211) and with none (45, 90)
Candidates ==
    {NaN, PosInfinity, NegInfinity}
    \cup {Finite(v) : v \in {-Unit, -1, 0, 1, 4, 78125, 31234567, 31234561,
                             Micro(14211), 45 * Unit, 90 * Unit}}
\* arguments of movingAverage: previous averages (5.0, 1.75, 0.000069, -0.5),
\* new values (8.0, 3.0, 0.014211) and smoothing factors inside and outside
\* [0, 1] (0, 0.25, 0.3, 1, 1.5, -0.5)
Averages == {5 * Unit, Micro(1750000), Micro(69), Micro(-500000)}

NewValues == {8 * Unit, 3 * Unit, Micro(14211)}

Alphas == {0, Micro(250000), Micro(300000), Unit, Micro(1500000), Micro(-500000)}


(***************************************************************************)
(* The application                                                         *)
(*                                                                         *)
(* The state of the page is the state of its components, as React holds    *)
(* it between renders: dash (Dashboard), form (StudySessionForm), ai       *)
(* (AIRecommendations) and hist (WeeklyHistory).  db is the table          *)
(* study_sessions of the signed-in user, in the order of created_at, which *)
(* is the order the page selects it in.  net holds the requests that are   *)
(* awaited: a handler runs up to its await in one step (a handler of React *)
(* is not interrupted, and the state it sets is rendered when it yields),  *)
(* and its continuation runs in a later step, when the request settles;    *)
(* requests settle in any order.  saved is the last PDF written by         *)
(* generateStudyPDF and toast the last message shown ("" when none).       *)
(* WeeklyHistory is mounted by no page of the repository: the sessions it  *)
(* is passed are held in hist.sessions, and whoever mounts it may pass it  *)
(* the rows of the table again at any time.                                *)
(*                                                                         *)
(* A moment is a whole number of hours, hour 0 being 00:00 of Monday       *)
(* 1 January 2024; a week is counted from Monday, as startOfWeek(...,      *)
(* { weekStartsOn: 1 }).                                                   *)
(***************************************************************************)
\* the most requests awaited at one time
MaxPending == 2

\* the day the page is used on
Today == 17

\* the moment of an hour of a day
At(day, hour) == day * 24 + hour

WeekOf(moment) == moment \div (7 * 24)

\* the week the page is used in
ThisWeek == WeekOf(At(Today, 0))

\* the k-th row of the table: 1.5, 0.5, 2.0, 1.0 and 3.0 hours, in turn,
\* with efficiencies 0.5, 0.8, 1.0, 0.7 and 0.6; the first row is of last
\* week, the others of this week: rows 2 and 3 of the two days before, at
\* 09:00, and the rows from the 4th on of today, at 09:00, 10:00, ...
Row(k) ==
    LET c == ((k - 1) % 5) + 1
    IN  [id |-> k,
         created_at |-> IF k = 1 THEN At(9, 9)
                        ELSE IF k < 4 THEN At(13 + k, 9)
                        ELSE At(Today, 5 + k),
         duration_minutes |-> <<90, 30, 120, 60, 180>>[c] * Unit,
         duration_hours |->
             <<Micro(1500000), Micro(500000), 2 * Unit, Unit, 3 * Unit>>[c],
         duration_hours_e9 |-> 0,
         efficiency_score |->
             <<Micro(500000), Micro(800000), Unit, Micro(700000),
               Micro(600000)>>[c],
         mood_score |-> <<6, 4, 8, 7, 5>>[c] * Unit,
         focus_score |-> <<8, 6, 10, 7, 5>>[c] * Unit,
         notes |-> ""]

\* the tables the page is opened on
Tables == {[k \in 1 .. n |-> Row(k)] : n \in 0 .. MaxLen}

\* the state of the components when they are mounted
Dashboard0 ==
    [sessions |-> <<>>, isLoading |-> TRUE, isExporting |-> FALSE,
     aiRecommendations |-> ""]

StudySessionForm0 ==
    [durationMinutes |-> <<>>, moodScore |-> 5 * Unit, focusScore |-> 5 * Unit,
     efficiencyScore |-> Micro(500000), notes |-> "",
     isSubmitting |-> FALSE]

AIRecommendations0 == [recommendations |-> "", isLoading |-> FALSE]

\* a session's id is a positive number; 0 stands for null
NoSession == [id |-> 0]

WeeklyHistory0 ==
    [sessions |-> <<>>, currentWeek |-> ThisWeek, deletingId |-> 0,
     sortBy |-> "date-desc", filterBy |-> "all", editingSession |-> NoSession,
     isEditDialogOpen |-> FALSE, isSaving |-> FALSE,
     editDuration |-> 0, editMood |-> 5 * Unit, editFocus |-> 5 * Unit,
     editEfficiency |-> Micro(500000), editNotes |-> ""]

\* no PDF has been written
NoFile == [written |-> FALSE]

\* the clients whose requests the edge function serves: the page and one
\* other client, each with one request at a time
Clients == {"page", "other"}

\* the function is serving no request of a client
NoRequest == [at |-> "none"]

NoRequests == [c \in Clients |-> NoRequest]

\* the callers whose calls are in progress at the same time
Callers == {"a", "b"}

\* the activation record of a caller that is in no call
NoFrame ==
    [pc |-> "idle", f |-> "none", values |-> <<>>, i |-> 0, acc |-> 0,
     sorted |-> <<>>, result |-> 0]

Init ==
    /\ fn = "none"
    /\ args = <<>>
    /\ ret = 0
    /\ heap = <<>>
    /\ ref = 0
    /\ frames = [c \in Callers |-> NoFrame]
    /\ db = <<>>
    /\ net = <<>>
    /\ edge = NoRequests
    /\ dash = Dashboard0
    /\ form = StudySessionForm0
    /\ ai = AIRecommendations0
    /\ hist = WeeklyHistory0
    /\ saved = NoFile
    /\ toast = ""

\* the caller is idle when fn = "none"; it makes one call and holds the
\* arguments it passed and the value it got back
Idle == fn = "none"

\* a call that allocates nothing and returns no array: the caller's array,
\* when it passes one, is the only one there is
Call(f, a, r) ==
    /\ fn' = f
    /\ args' = a
    /\ ret' = r
    /\ heap' = IF "values" \in DOMAIN a THEN <<a.values>> ELSE <<>>
    /\ ref' = 0
    /\ UNCHANGED others

CallCreateReal ==
    /\ Idle
    /\ \E value \in Candidates :
            Call("createReal", [value |-> value], createReal(value))

CallClampReal ==
    /\ Idle
    /\ \E value \in Scalars, min \in Scalars, max \in Scalars :
            Call("clampReal", [value |-> value, min |-> min, max |-> max],
                 clampReal(value, min, max))

CallCalculateMean ==
    /\ Idle
    /\ \E values \in Sequences :
            Call("calculateMean", [values |-> values], calculateMean(values))

CallFindSupremum ==
    /\ Idle
    /\ \E values \in Sequences :
            Call("findSupremum", [values |-> values], findSupremum(values))

CallFindInfimum ==
    /\ Idle
    /\ \E values \in Sequences :
            Call("findInfimum", [values |-> values], findInfimum(values))

\* simpleIntegration(values, interval) and simpleIntegration(values), where
\* the omitted interval takes its default
CallSimpleIntegration ==
    /\ Idle
    /\ \E values \in Sequences :
            \/ \E interval \in Intervals :
                    Call("simpleIntegration",
                         [values |-> values, interval |-> interval],
                         simpleIntegration(values, interval))
            \/ Call("simpleIntegration", [values |-> values],
                    simpleIntegration(values, DefaultInterval))

\* movingAverage(previousAverage, newValue, alpha) and
\* movingAverage(previousAverage, newValue), where the omitted alpha takes its
\* default
CallMovingAverage ==
    /\ Idle
    /\ \E previousAverage \in Averages, newValue \in NewValues :
            \/ \E alpha \in Alphas :
                    Call("movingAverage",
                         [previousAverage |-> previousAverage,
                          newValue |-> newValue, alpha |-> alpha],
                         movingAverage(previousAverage, newValue, alpha))
            \/ Call("movingAverage",
                    [previousAverage |-> previousAverage,
                     newValue |-> newValue],
                    movingAverage(previousAverage, newValue, DefaultAlpha))

CallNormalize ==
    /\ Idle
    /\ \E value \in Scalars, min \in Scalars, max \in Scalars :
            Call("normalize", [value |-> value, min |-> min, max |-> max],
                 normalize(value, min, max))

CallCalculateVariance ==
    /\ Idle
    /\ \E values \in Sequences :
            Call("calculateVariance", [values |-> values],
                 calculateVariance(values))

CallCalculateStdDev ==
    /\ Idle
    /\ \E values \in Sequences :
            Call("calculateStdDev", [values |-> values], calculateStdDev(values))

CallCalculateZScore ==
    /\ Idle
    /\ \E value \in ZValues, mean \in ZValues, stdDev \in ZDevs :
            Call("calculateZScore",
                 [value |-> value, mean |-> mean, stdDev |-> stdDev],
                 calculateZScore(value, mean, stdDev))

\* the caller allocates values, passes its reference and gets back the
\* reference of the array sortReals returns
CallSortReals ==
    /\ Idle
    /\ \E values \in Sequences :
            LET result == sortRealsOnHeap(<<values>>, 1)
            IN  /\ fn' = "sortReals"
                /\ args' = [values |-> values]
                /\ ret' = result.heap[result.ref]
                /\ heap' = result.heap
                /\ ref' = result.ref
                /\ UNCHANGED others

(***************************************************************************)
(* The statistics on the dashboard and in the PDF                          *)
(*                                                                         *)
(* StudyStats (the dashboard's cards) and generateStudyPDF (the table of   *)
(* the exported report) are given the page's list of sessions, compute     *)
(* their statistics with the library and print them with toFixed.  A       *)
(* printed number, x.toFixed(digits), is held as its sign, its digits as a *)
(* count of units, and the number of decimals: "-0.00" is                  *)
(* [negative |-> TRUE, value |-> 0, digits |-> 2].  The unit that follows  *)
(* the number ("j" on the cards, " jam" in the table, "%") is not part of  *)
(* the figure.                                                             *)
(***************************************************************************)
\* x.toFixed(digits) for x units
Figure(x, digits) ==
    [negative |-> x < 0, value |-> Abs(ToFixed(x, 1, digits)),
     digits |-> digits]

\* (x * 100).toFixed(1)
Percent(x) == Figure(x * 100, 1)

\* sessions.map(s => s.duration_hours), and the like
Column(sessions, field) == [k \in 1 .. Len(sessions) |-> sessions[k][field]]

\* mutant: the latest z-score printed with 4 decimals, as the PDF prints it
StudyStats_ZScoreFourDecimals(sessions) ==
    IF Len(sessions) = 0 THEN [empty |-> TRUE]
    ELSE LET durations == Column(sessions, "duration_hours")
             efficiencies == Column(sessions, "efficiency_score")
             avgDuration == calculateMean(durations)
             supDuration == findSupremum(durations)
             infDuration == findInfimum(durations)
             totalHours == simpleIntegration(durations, Unit)
             avgEfficiency == calculateMean(efficiencies)
             stdDev == calculateStdDev(durations)
             latestZScore ==
                 calculateZScore(durations[Len(durations)], avgDuration, stdDev)
         IN  [empty |-> FALSE,
              totalHours |-> Figure(totalHours, 2),
              avgDuration |-> Figure(avgDuration, 2),
              avgDurationFormula |-> Figure(avgDuration, 4),
              supDuration |-> Figure(supDuration, 2),
              infDuration |-> Figure(infDuration, 2),
              avgEfficiency |-> Percent(avgEfficiency),
              latestZScore |-> Figure(latestZScore, 4)]

\* the cards of the dashboard: the headline of each, and for the mean
\* duration also the line under it
StudyStats(sessions) ==
    IF Len(sessions) = 0 THEN [empty |-> TRUE]
    ELSE LET durations == Column(sessions, "duration_hours")
             efficiencies == Column(sessions, "efficiency_score")
             avgDuration == calculateMean(durations)
             supDuration == findSupremum(durations)
             infDuration == findInfimum(durations)
             totalHours == simpleIntegration(durations, Unit)
             avgEfficiency == calculateMean(efficiencies)
             stdDev == calculateStdDev(durations)
             latestZScore ==
                 calculateZScore(durations[Len(durations)], avgDuration, stdDev)
         IN  [empty |-> FALSE,
              totalHours |-> Figure(totalHours, 2),
              avgDuration |-> Figure(avgDuration, 2),
              avgDurationFormula |-> Figure(avgDuration, 4),
              supDuration |-> Figure(supDuration, 2),
              infDuration |-> Figure(infDuration, 2),
              avgEfficiency |-> Percent(avgEfficiency),
              latestZScore |-> Figure(latestZScore, 2)]

\* the column "Nilai" of the PDF's table of statistics
generateStudyPDF(sessions) ==
    LET durations == Column(sessions, "duration_hours")
        efficiencies == Column(sessions, "efficiency_score")
        moods == Column(sessions, "mood_score")
        focuses == Column(sessions, "focus_score")
        stats ==
            [totalHours |-> simpleIntegration(durations, Unit),
             avgDuration |-> calculateMean(durations),
             supDuration |-> findSupremum(durations),
             infDuration |-> findInfimum(durations),
             avgEfficiency |-> calculateMean(efficiencies),
             avgMood |-> calculateMean(moods),
             avgFocus |-> calculateMean(focuses),
             variance |-> calculateVariance(durations),
             stdDev |-> calculateStdDev(durations),
             zScoreLatest |->
                 IF Len(sessions) > 0
                 THEN calculateZScore(durations[Len(durations)],
                                      calculateMean(durations),
                                      calculateStdDev(durations))
                 ELSE 0]
    IN  [totalHours |-> Figure(stats.totalHours, 2),
         avgDuration |-> Figure(stats.avgDuration, 4),
         supDuration |-> Figure(stats.supDuration, 2),
         infDuration |-> Figure(stats.infDuration, 2),
         variance |-> Figure(stats.variance, 4),
         stdDev |-> Figure(stats.stdDev, 4),
         zScoreLatest |-> Figure(stats.zScoreLatest, 4),
         avgEfficiency |-> Percent(stats.avgEfficiency),
         avgMood |-> Percent(stats.avgMood),
         avgFocus |-> Percent(stats.avgFocus)]

Session(hours, efficiency, mood, focus) ==
    [duration_hours |-> hours, efficiency_score |-> efficiency,
     mood_score |-> mood, focus_score |-> focus]

\* sessions of 1.5, 2.0, 0.5, 3.0 and 1.0 hours, with scores between 0 and
\* 1.  No statistic of up to 5 of them lies halfway between two of the
\* decimals it is rounded to, unless it is exact in binary.
Sessions ==
    {Session(Micro(1500000), Micro(500000), Micro(600000), Micro(800000)),
     Session(2 * Unit, Unit, Micro(800000), Unit),
     Session(Micro(500000), Micro(800000), Micro(400000), Micro(600000)),
     Session(3 * Unit, Micro(500000), Unit, Micro(800000)),
     Session(Unit, Unit, Micro(600000), Micro(400000))}

RECURSIVE SessionListsOfLen(_)
SessionListsOfLen(n) ==
    IF n = 0 THEN {<<>>}
    ELSE {Append(s, v) : s \in SessionListsOfLen(n - 1), v \in Sessions}

SessionLists == UNION {SessionListsOfLen(n) : n \in 0 .. MaxLen}

\* the dashboard renders its cards from the sessions of the page
RenderStudyStats ==
    /\ Idle
    /\ ~dash.isLoading
    /\ Call("StudyStats", [sessions |-> dash.sessions],
            StudyStats(dash.sessions))

(***************************************************************************)
(* The edge function study-recommendations.  A request carries a JSON body *)
(* that holds a list of sessions or holds none.  The handler is            *)
(* asynchronous: it runs to await req.json(), then to await fetch(...) of  *)
(* the AI gateway, then to await aiResponse.json() or aiResponse.text(),   *)
(* and other requests are served in between.  edge[c] is the request of    *)
(* client c that is being served: the await the handler is at ("none"      *)
(* when there is no request, "responded" when the handler has returned its *)
(* response and the client has not received it yet), the prompt it built   *)
(* (its figures, as Figure holds them), whether it sent a request to the   *)
(* gateway, and the status and the text of its response.  The gateway's    *)
(* answer is an input: it answers with a completion ("ok"), with status    *)
(* 429 or 402, with another error status ("500"), or the request fails     *)
(* ("failed"); the function's API key is configured or is not.             *)
(***************************************************************************)
\* (num / den).toFixed(digits), num units over a positive count
QuotientFigure(num, den, digits) ==
    [negative |-> num < 0, value |-> Abs(ToFixed(num, den, digits)),
     digits |-> digits]

\* (num / den * 100).toFixed(1): the quotient rounded to 3 decimals, as a
\* count of hundredths of a unit
QuotientPercent(num, den) ==
    [negative |-> num < 0, value |-> Abs(ToFixed(num, den, 3)) * 100,
     digits |-> 1]

\* values.reduce((a, b) => a + b, 0)
ReduceSum(values) == SumLoop(values, 1, 0)

\* Math.max(...values) of a non-empty list
MathMax(values) ==
    CHOOSE v \in {values[k] : k \in 1 .. Len(values)} :
        \A k \in 1 .. Len(values) : values[k] <= v

\* Math.min(...values) of a non-empty list
MathMin(values) ==
    CHOOSE v \in {values[k] : k \in 1 .. Len(values)} :
        \A k \in 1 .. Len(values) : v <= values[k]

\* sessions.slice(-5)
LastFive(sessions) ==
    IF Len(sessions) <= 5 THEN sessions
    ELSE SubSeq(sessions, Len(sessions) - 4, Len(sessions))

\* a session of a request is an object that holds numbers: a record of
\* some of the four fields.  Every session of the list holds the field
Hold(sessions, field) ==
    \A k \in 1 .. Len(sessions) : field \in DOMAIN sessions[k]

\* what toFixed prints for NaN, whatever the number of decimals
PrintedNaN == [negative |-> FALSE, value |-> 0, digits |-> 0, nan |-> TRUE]

\* the figures of the user prompt, of 3 sessions or more whose last 5 hold
\* a duration, a mood and a focus: the means are the plain quotients
\* sum / n, printed with 2 decimals or 1.  A field that a session lacks is
\* undefined: a sum, a maximum or a minimum over it is NaN, and so is the
\* product of line 76, and toFixed prints "NaN"
userPrompt(sessions) ==
    LET n == Len(sessions)
        recent == LastFive(sessions)
        Mean(field, digits) ==
            IF Hold(sessions, field)
            THEN QuotientFigure(ReduceSum(Column(sessions, field)), n, digits)
            ELSE PrintedNaN
        complete == Hold(sessions, "duration_hours")
    IN  [totalSessions |-> n,
         avgDuration |-> Mean("duration_hours", 2),
         minDuration |->
             IF complete
             THEN Figure(MathMin(Column(sessions, "duration_hours")), 2)
             ELSE PrintedNaN,
         maxDuration |->
             IF complete
             THEN Figure(MathMax(Column(sessions, "duration_hours")), 2)
             ELSE PrintedNaN,
         avgEfficiency |->
             IF Hold(sessions, "efficiency_score")
             THEN QuotientPercent(
                      ReduceSum(Column(sessions, "efficiency_score")), n)
             ELSE PrintedNaN,
         avgMood |-> Mean("mood_score", 1),
         avgFocus |-> Mean("focus_score", 1),
         recent |->
             [k \in 1 .. Len(recent) |->
                 [duration |-> Figure(recent[k].duration_hours, 2),
                  efficiency |->
                      IF "efficiency_score" \in DOMAIN recent[k]
                      THEN Percent(recent[k].efficiency_score)
                      ELSE PrintedNaN,
                  mood |-> Figure(recent[k].mood_score, 1),
                  focus |-> Figure(recent[k].focus_score, 1)]]]

\* no prompt was built
NoPrompt == [totalSessions |-> 0]

\* the fewest sessions the function gives recommendations for
MinSessions == 3

\* what JSON.parse gives for the body of a request: a body that is not
\* JSON (an empty one, say), null, or an object, which may hold sessions
NotJson == [json |-> "SyntaxError"]

NullBody == [json |-> "null"]

EmptyObject == [json |-> "object"]

WithSessions(value) == [json |-> "object", sessions |-> value]

\* the values of sessions: a list, or a value that is none, of which the
\* handler looks at its truth and at its length (<<>> when it has none,
\* as the number 5, and <<3>> for the string "abc")
Array(items) == [isArray |-> TRUE, items |-> items]

NotArray(truthy, length) ==
    [isArray |-> FALSE, truthy |-> truthy, length |-> length]

\* !sessions || sessions.length < 3: a length that is undefined is not
\* under 3
TooFew(value) ==
    IF value.isArray THEN Len(value.items) < MinSessions
    ELSE \/ ~value.truthy
         \/ value.length # <<>> /\ value.length[1] < MinSessions

\* the prompt can be printed: each of the last 5 sessions holds the
\* numbers whose toFixed is called (lines 75, 77 and 78), which throws for
\* a field that is missing.  The efficiency is multiplied first (line 76),
\* and the sums, the maximum and the minimum of lines 39 to 46 are numbers
\* whatever the sessions hold: none of these throws
Complete(items) ==
    \A k \in 1 .. Len(LastFive(items)) :
        {"duration_hours", "mood_score", "focus_score"}
            \subseteq DOMAIN LastFive(items)[k]

\* the handler returns a response
Responded(request, status, recommendations) ==
    [request EXCEPT !.at = "responded", !.status = status,
                    !.recommendations = recommendations]

\* a request arrives: the handler answers a preflight at once, and
\* otherwise runs to await req.json()
Arrived(method, body) ==
    LET request == [method |-> method, at |-> "req.json", body |-> body,
                    prompt |-> NoPrompt, contacted |-> FALSE, status |-> 0,
                    recommendations |-> ""]
    IN  IF method = "OPTIONS" THEN Responded(request, 200, "") ELSE request

\* mutant: the handler that does not look at the number of sessions
ReadSessions_NoGuard(request, keyConfigured) ==
    IF request.body.json # "object" THEN Responded(request, 500, "")
    ELSE IF "sessions" \notin DOMAIN request.body
    THEN Responded(request, 400, "")
    ELSE IF ~keyConfigured THEN Responded(request, 500, "")
    ELSE [request EXCEPT !.at = "fetch", !.contacted = TRUE]

\* the body is read.  When req.json() rejects, or gives null (whose
\* sessions cannot be taken), the catch answers 500; the handler answers
\* 400 when the body holds no sessions or fewer than 3; sessions that are
\* no list (sessions.map is no function), or whose last 5 lack a number
\* that is printed, make it throw while it computes, and the catch answers
\* 500; otherwise it builds the prompt and, when the key is configured,
\* runs to await fetch(...); without the key it throws, and its catch
\* answers 500
ReadSessions(request, keyConfigured) ==
    IF request.body.json # "object" THEN Responded(request, 500, "")
    ELSE IF \/ "sessions" \notin DOMAIN request.body
            \/ TooFew(request.body.sessions)
    THEN Responded(request, 400, "")
    ELSE IF \/ ~request.body.sessions.isArray
            \/ ~Complete(request.body.sessions.items)
    THEN Responded(request, 500, "")
    ELSE LET built ==
                 [request EXCEPT
                     !.prompt = userPrompt(request.body.sessions.items)]
         IN  IF ~keyConfigured THEN Responded(built, 500, "")
             ELSE [built EXCEPT !.at = "fetch", !.contacted = TRUE]

\* the gateway has answered, or the request to it has failed: the handler
\* answers 429 or 402 as the gateway did, answers 500 when fetch threw,
\* and otherwise runs to await the text of the error or the completion
GatewayAnswered(request, gateway) ==
    IF gateway = "failed" THEN Responded(request, 500, "")
    ELSE IF gateway = "429" THEN Responded(request, 429, "")
    ELSE IF gateway = "402" THEN Responded(request, 402, "")
    ELSE IF gateway = "500" THEN [request EXCEPT !.at = "aiResponse.text"]
    ELSE [request EXCEPT !.at = "aiResponse.json"]

\* the text of the gateway's error is read: the handler throws, and its
\* catch answers 500
ErrorTextRead(request) == Responded(request, 500, "")

\* the completion is read: the handler answers with the text of its first
\* choice, which may be empty; a completion without choices makes it throw,
\* and its catch answers 500
CompletionRead(request, completion) ==
    IF completion = "malformed" THEN Responded(request, 500, "")
    ELSE Responded(request, 200, completion)

\* what the gateway's completion holds
Completions == {"advice", "", "malformed"}

\* what the gateway does with a request
GatewayAnswers == {"ok", "429", "402", "500", "failed"}

\* sessions whose means lie just under a half step of the printed decimals:
\* 1.1249 and 1.125 hours, with efficiencies 0.06242 and 0.0625, next to
\* sessions of 1.75 and 0.5 hours; moods and focus are whole scores out of
\* 10.  No mean of up to 5 of them lies halfway between two of the decimals
\* it is rounded to, unless it is exact in binary.
PromptSessions ==
    {Session(Micro(1124900), Micro(62420), 6 * Unit, 8 * Unit),
     Session(Micro(1125000), Micro(62500), 8 * Unit, 10 * Unit),
     Session(Micro(1750000), Micro(500000), 7 * Unit, 7 * Unit),
     Session(Micro(500000), Micro(800000), 4 * Unit, 6 * Unit)}

RECURSIVE PromptListsOfLen(_)
PromptListsOfLen(n) ==
    IF n = 0 THEN {<<>>}
    ELSE {Append(s, v) : s \in PromptListsOfLen(n - 1), v \in PromptSessions}

\* the bodies of the requests: one that is not JSON, null, {},
\* {sessions: [...]}, and sessions that are no list of sessions: 0, 5,
\* "ab", "abc" and three empty objects
Bodies ==
    {NotJson, NullBody, EmptyObject}
    \cup {WithSessions(Array(s)) :
             s \in UNION {PromptListsOfLen(n) : n \in 0 .. MaxLen}}
    \cup {WithSessions(NotArray(FALSE, <<>>)),
          WithSessions(NotArray(TRUE, <<>>)),
          WithSessions(NotArray(TRUE, <<MinSessions - 1>>)),
          WithSessions(NotArray(TRUE, <<MinSessions>>)),
          WithSessions(Array(<<<<>>, <<>>, <<>>>>))}

\* a request of the other client arrives: a preflight, which has no body,
\* or a POST
ServeStudyRecommendations ==
    /\ edge["other"] = NoRequest
    /\ \/ edge' = [edge EXCEPT !["other"] = Arrived("OPTIONS", NotJson)]
       \/ \E body \in Bodies :
              edge' = [edge EXCEPT !["other"] = Arrived("POST", body)]
    /\ UNCHANGED <<caller, frames, db, net, dash, form, ai, hist, saved, toast>>

\* req.json() settles
ResumeReqJson ==
    \E c \in Clients, keyConfigured \in BOOLEAN :
        /\ edge[c].at = "req.json"
        /\ edge' = [edge EXCEPT ![c] = ReadSessions(@, keyConfigured)]
        /\ UNCHANGED <<caller, frames, db, net, dash, form, ai, hist, saved,
                       toast>>

\* fetch(...) settles
ResumeFetch ==
    \E c \in Clients, gateway \in GatewayAnswers :
        /\ edge[c].at = "fetch"
        /\ edge' = [edge EXCEPT ![c] = GatewayAnswered(@, gateway)]
        /\ UNCHANGED <<caller, frames, db, net, dash, form, ai, hist, saved,
                       toast>>

\* aiResponse.text() settles
ResumeText ==
    \E c \in Clients :
        /\ edge[c].at = "aiResponse.text"
        /\ edge' = [edge EXCEPT ![c] = ErrorTextRead(@)]
        /\ UNCHANGED <<caller, frames, db, net, dash, form, ai, hist, saved,
                       toast>>

\* aiResponse.json() settles
ResumeJson ==
    \E c \in Clients, completion \in Completions :
        /\ edge[c].at = "aiResponse.json"
        /\ edge' = [edge EXCEPT ![c] = CompletionRead(@, completion)]
        /\ UNCHANGED <<caller, frames, db, net, dash, form, ai, hist, saved,
                       toast>>

\* the other client receives the response
Respond ==
    /\ edge["other"].at = "responded"
    /\ edge' = [edge EXCEPT !["other"] = NoRequest]
    /\ UNCHANGED <<caller, frames, db, net, dash, form, ai, hist, saved, toast>>

\* the caller is done with the result and is idle again
Done ==
    /\ fn # "none"
    /\ fn' = "none"
    /\ args' = <<>>
    /\ ret' = 0
    /\ heap' = <<>>
    /\ ref' = 0
    /\ UNCHANGED others

\* the calls that return a record come last
Next ==
    \/ CallClampReal
    \/ CallCalculateMean
    \/ CallFindSupremum
    \/ CallFindInfimum
    \/ CallMovingAverage
    \/ CallSimpleIntegration
    \/ CallCalculateVariance
    \/ CallCalculateStdDev
    \/ CallCalculateZScore
    \/ CallSortReals
    \/ CallCreateReal
    \/ CallNormalize
    \/ Done

Spec == Init /\ [][Next]_vars

\* the edge function: its requests are served
NextServer ==
    \/ ServeStudyRecommendations
    \/ ResumeReqJson
    \/ ResumeFetch
    \/ ResumeText
    \/ ResumeJson
    \/ Respond

SpecServer == Init /\ [][NextServer]_vars

(***************************************************************************)
(* Calls in progress at the same time                                      *)
(*                                                                         *)
(* The functions with a loop are run one iteration at a time, by callers   *)
(* whose steps interleave.  A call has an activation record: the function, *)
(* the array it was passed, its loop counter i, its accumulator acc (sum,  *)
(* sup, inf or total, declared with let in the function's body) and, for   *)
(* sortReals, the copy sorted it made; pc is "loop" while the call runs    *)
(* and "done" when it has returned result (sortReals: sorted).             *)
(* simpleIntegration is called with the default interval 1.                *)
(***************************************************************************)
\* the longest array of a call in progress
MaxArray == 2

\* the functions of the library with a loop over an array
Loops ==
    {"calculateMean", "findSupremum", "findInfimum", "simpleIntegration",
     "sortReals"}

RECURSIVE ArraysOfLen(_)
ArraysOfLen(n) ==
    IF n = 0 THEN {<<>>}
    ELSE {Append(s, v) : s \in ArraysOfLen(n - 1),
                         v \in {Micro(1500000), Micro(500000)}}

Arrays == UNION {ArraysOfLen(n) : n \in 0 .. MaxArray}

\* mutant: sum, sup, inf, total and sorted declared once, outside the
\* functions: every call reads the ones of caller a
Locals_ModuleLevel(fs, c) == [acc |-> fs["a"].acc, sorted |-> fs["a"].sorted]

\* the variables a call declares in its body are its own
Locals(fs, c) == [acc |-> fs[c].acc, sorted |-> fs[c].sorted]

\* the function is entered: its guard for the empty array, and the
\* initialisation of its loop
EnterFrame(f, values) ==
    IF f # "sortReals" /\ Len(values) = 0
    THEN [NoFrame EXCEPT !.pc = "done", !.f = f, !.values = values]
    ELSE [pc |-> "loop", f |-> f, values |-> values,
          i |-> IF f \in {"findSupremum", "findInfimum"} THEN 2
                ELSE IF f = "sortReals" THEN 0 ELSE 1,
          acc |-> IF f \in {"findSupremum", "findInfimum"} THEN values[1]
                  ELSE 0,
          sorted |-> IF f = "sortReals" THEN values ELSE <<>>,
          result |-> 0]

\* one iteration of the loop of frame fr on the locals it finds, or the
\* return when the loop has ended
IterateFrame(fr, locals) ==
    LET n == Len(fr.values)
    IN  IF fr.f = "sortReals"
        THEN IF fr.i < Len(locals.sorted)
             THEN [fr EXCEPT !.sorted = SortInner(locals.sorted, fr.i, 0),
                             !.i = fr.i + 1]
             ELSE [fr EXCEPT !.pc = "done", !.sorted = locals.sorted]
        ELSE IF fr.i <= n
        THEN [fr EXCEPT
                 !.acc =
                     IF fr.f = "findSupremum"
                     THEN IF fr.values[fr.i] > locals.acc
                          THEN fr.values[fr.i] ELSE locals.acc
                     ELSE IF fr.f = "findInfimum"
                     THEN IF fr.values[fr.i] < locals.acc
                          THEN fr.values[fr.i] ELSE locals.acc
                     ELSE locals.acc + fr.values[fr.i],
                 !.i = fr.i + 1]
        ELSE [fr EXCEPT
                 !.pc = "done",
                 !.result =
                     IF fr.f = "calculateMean" THEN ToFixed(locals.acc, n, 4)
                     ELSE IF fr.f = "simpleIntegration"
                     THEN ToFixed(locals.acc, 1, 4)
                     ELSE locals.acc]

\* caller c calls a function
Enter(c) ==
    /\ frames[c].pc = "idle"
    /\ \E f \in Loops, values \in Arrays :
            frames' = [frames EXCEPT ![c] = EnterFrame(f, values)]
    /\ UNCHANGED <<caller, page>>

\* the call of caller c runs one iteration, or returns
Iterate(c) ==
    /\ frames[c].pc = "loop"
    /\ frames' = [frames EXCEPT
                     ![c] = IterateFrame(frames[c], Locals(frames, c))]
    /\ UNCHANGED <<caller, page>>

\* caller c has used the result
Leave(c) ==
    /\ frames[c].pc = "done"
    /\ frames' = [frames EXCEPT ![c] = NoFrame]
    /\ UNCHANGED <<caller, page>>

NextCalls ==
    \E c \in Callers :
        \/ Enter(c)
        \/ Iterate(c)
        \/ Leave(c)

SpecCalls == Init /\ [][NextCalls]_vars

(***************************************************************************)
(* The helpers that demonstrate the axioms                                 *)
(*                                                                         *)
(* addReal, associativeAddition and distributiveProperty compare two       *)
(* results that differ by the rounding of double arithmetic only, so here  *)
(* a number is a double, held exactly on three scales:                     *)
(* [h, m, l] is h * 2^54 + m + l * 2^-54, with small integers h, m and l.  *)
(* A double has a significand of 53 bits: between 2^k and 2^(k+1) the      *)
(* doubles are 2^(k-52) apart, which is 2^(k+2) steps of the scale below (a *)
(* scale is 2^54 times the next).  A sum or product is formed exactly and  *)
(* rounded to the nearest double, a tie going to the double whose          *)
(* significand is even.  The factor a of distributiveProperty is a whole   *)
(* number, so that no product leaves the three scales.                     *)
(***************************************************************************)
Double(h, m, l) == [h |-> h, m |-> m, l |-> l]

NegDouble(x) == Double(-x.h, -x.m, -x.l)

\* the sign of h * 2^54 + m + l * 2^-54: that of its leading part
SgnDouble(x) ==
    IF x.h # 0 THEN Sgn(x.h) ELSE IF x.m # 0 THEN Sgn(x.m) ELSE Sgn(x.l)

RECURSIVE Pow2(_)
Pow2(k) == IF k = 0 THEN 1 ELSE 2 * Pow2(k - 1)

\* the largest k with 2^k <= n, for n >= 1
RECURSIVE Log2(_)
Log2(n) == IF n < 2 THEN 0 ELSE 1 + Log2(n \div 2)

\* the distance between neighbouring doubles at lead * 2^e + (lower part),
\* in steps 2^(e-54): just under a power of two the doubles are twice as
\* dense
Spacing(lead, lowerSign) ==
    IF lowerSign < 0 /\ lead = Pow2(Log2(lead))
    THEN Pow2(Log2(lead) + 1)
    ELSE Pow2(Log2(lead) + 2)

\* r + (a tail smaller than any step, of sign tail) rounded to the nearest
\* multiple of s, a tie going to the even multiple
RoundToSpacing(r, s, tail) ==
    LET rem == r % s
        base == r - rem
    IN  IF 2 * rem < s \/ (2 * rem = s /\ tail < 0) THEN base
        ELSE IF 2 * rem > s \/ tail > 0 THEN base + s
        ELSE IF (base \div s) % 2 = 0 THEN base ELSE base + s

\* the double nearest to a positive exact number
RoundPositive(x) ==
    IF x.h # 0
    THEN LET lower == IF x.m # 0 THEN Sgn(x.m) ELSE Sgn(x.l)
         IN  Double(x.h,
                    RoundToSpacing(x.m, Spacing(x.h, lower), Sgn(x.l)), 0)
    ELSE IF x.m # 0
    THEN Double(0, x.m, RoundToSpacing(x.l, Spacing(x.m, Sgn(x.l)), 0))
    ELSE x

\* the double nearest to an exact number
RoundDouble(x) ==
    IF SgnDouble(x) < 0 THEN NegDouble(RoundPositive(NegDouble(x)))
    ELSE RoundPositive(x)

\* the exact sum and difference
ExactSum(x, y) == Double(x.h + y.h, x.m + y.m, x.l + y.l)

ExactDifference(x, y) == Double(x.h - y.h, x.m - y.m, x.l - y.l)

\* x + y, x - y, and a * x for a whole number a, in double arithmetic
AddDouble(x, y) == RoundDouble(ExactSum(x, y))

SubDouble(x, y) == RoundDouble(ExactDifference(x, y))

MulDouble(a, x) == RoundDouble(Double(a.m * x.h, a.m * x.m, a.m * x.l))

\* the largest whole number of steps 2^-54 under 1e-10
ToleranceSteps == 1801439

\* Math.abs(x) < 1e-10
WithinTolerance(x) == x.h = 0 /\ x.m = 0 /\ Abs(x.l) <= ToleranceSteps

addReal(a, b) ==
    LET sum1 == AddDouble(a, b)
        sum2 == AddDouble(b, a)
        commutative == WithinTolerance(SubDouble(sum1, sum2))
    IN  [result |-> sum1, commutative |-> commutative]

\* mutant: the two results compared for equality
associativeAddition_Exact(a, b, c) ==
    LET result1 == AddDouble(AddDouble(a, b), c)
        result2 == AddDouble(a, AddDouble(b, c))
    IN  [result1 |-> result1, result2 |-> result2,
         associative |-> result1 = result2]

associativeAddition(a, b, c) ==
    LET result1 == AddDouble(AddDouble(a, b), c)
        result2 == AddDouble(a, AddDouble(b, c))
        associative == WithinTolerance(SubDouble(result1, result2))
    IN  [result1 |-> result1, result2 |-> result2,
         associative |-> associative]

distributiveProperty(a, b, c) ==
    LET result1 == MulDouble(a, AddDouble(b, c))
        result2 == AddDouble(MulDouble(a, b), MulDouble(a, c))
        distributive == WithinTolerance(SubDouble(result1, result2))
    IN  [result1 |-> result1, result2 |-> result2,
         distributive |-> distributive]

\* 0, 1, 2, 3 and -1; 2^54, -2^54 and 2^54 + 4; 2^-54, 2^-53 and -2^-54
Doubles ==
    {Double(0, 0, 0), Double(0, 1, 0), Double(0, 2, 0), Double(0, 3, 0),
     Double(0, -1, 0), Double(1, 0, 0), Double(-1, 0, 0), Double(1, 4, 0),
     Double(0, 0, 1), Double(0, 0, 2), Double(0, 0, -1)}

\* the whole numbers among them
Wholes == {x \in Doubles : x.h = 0 /\ x.l = 0}

CallAddReal ==
    /\ Idle
    /\ \E a, b \in Doubles :
            Call("addReal", [a |-> a, b |-> b], addReal(a, b))

CallAssociativeAddition ==
    /\ Idle
    /\ \E a, b, c \in Doubles :
            Call("associativeAddition", [a |-> a, b |-> b, c |-> c],
                 associativeAddition(a, b, c))

CallDistributiveProperty ==
    /\ Idle
    /\ \E a \in Wholes, b, c \in Doubles :
            Call("distributiveProperty", [a |-> a, b |-> b, c |-> c],
                 distributiveProperty(a, b, c))

NextAxioms ==
    \/ CallAddReal
    \/ CallAssociativeAddition
    \/ CallDistributiveProperty
    \/ Done

SpecAxioms == Init /\ [][NextAxioms]_vars

\* the library is in no call
NoCall ==
    /\ fn = "none"
    /\ args = <<>>
    /\ ret = 0
    /\ heap = <<>>
    /\ ref = 0
    /\ frames = [c \in Callers |-> NoFrame]

(***************************************************************************)
(* Requests                                                                *)
(***************************************************************************)
\* net without its k-th request
Without(k) == SubSeq(net, 1, k - 1) \o SubSeq(net, k + 1, Len(net))

\* the positions of the awaited requests of a handler
Awaited(handler) == {k \in 1 .. Len(net) : net[k].handler = handler}

\* room for one more request
Room == Len(net) < MaxPending

\* the ids in use: a new row gets the next one (the table gives a row a
\* UUID of its own)
RECURSIVE MaxId(_)
MaxId(rows) ==
    IF Len(rows) = 0 THEN 0
    ELSE LET rest == MaxId(Tail(rows))
         IN  IF Head(rows).id > rest THEN Head(rows).id ELSE rest

(***************************************************************************)
(* The column duration_hours is REAL, a binary number of 24 bits.  The     *)
(* trigger calculate_duration_hours stores in it the REAL nearest to       *)
(* minutes / 60 (the quotient is taken in double precision and rounded     *)
(* when it is assigned), and the page reads the shortest decimal that      *)
(* names that REAL: 1.6666666 for 100 minutes, whose REAL is               *)
(* 1.66666662..., and 1.8333334 for 110.  With P the power of 2 that       *)
(* brings minutes / 60 between 2^23 and 2^24 and k the whole number        *)
(* nearest to P * minutes / 60, the REAL is k / P, and a decimal names it  *)
(* when it lies less than 1 / (2 * P) from it.                             *)
(***************************************************************************)
RECURSIVE RealScale(_, _)
RealScale(minutes, P) ==
    IF minutes * P >= 60 * 8388608 THEN P ELSE RealScale(minutes, 2 * P)

\* the decimal of a number of digits after the point that is nearest to the
\* REAL of minutes / 60, as a whole number of its last digit, and whether it
\* names that REAL; X is 15 * P / 2 times its distance from the REAL, and j
\* its place above the decimal under minutes / 60
RealDecimal(minutes, digits) ==
    LET P == RealScale(minutes, 4)
        Q == P \div 4
        k == (minutes * P + 30) \div 60
        r == 15 * k - minutes * Q
        step == Pow10(digits - 1)
        A == minutes * step
        from == (A % 6) * Q + r * step
        j == (from + 3 * Q) \div (6 * Q)
        X == 6 * j * Q - from
    IN  [value |-> A \div 6 + j,
         names |-> \/ 2 * Abs(X) < 15 * step
                   \/ 2 * Abs(X) = 15 * step /\ k % 2 = 0]

\* the digits after the point of the shortest decimal that names the REAL
\* of minutes / 60: 9 at most (0.016666668, of 1 minute)
RECURSIVE ShortestDigits(_, _)
ShortestDigits(minutes, digits) ==
    IF RealDecimal(minutes, digits).names THEN digits
    ELSE ShortestDigits(minutes, digits + 1)

\* the number the page reads from the column duration_hours of a row of a
\* number of minutes: duration_hours is the number to 7 decimals, in
\* units, and duration_hours_e9 its 8th and 9th decimals (68 of
\* 0.016666668), which the units of the statistics do not hold
RealRead(minutes) ==
    IF minutes = 0 THEN [duration_hours |-> 0, duration_hours_e9 |-> 0]
    ELSE LET digits == ShortestDigits(minutes, 1)
             value == RealDecimal(minutes, digits).value
         IN  IF digits <= 7
             THEN [duration_hours |-> value * Pow10(7 - digits),
                   duration_hours_e9 |-> 0]
             ELSE [duration_hours |-> (value * Pow10(9 - digits)) \div 100,
                   duration_hours_e9 |-> (value * Pow10(9 - digits)) % 100]

\* the trigger calculate_duration_hours, on the row that is inserted or
\* updated
calculate_duration_hours(new) ==
    LET read == RealRead(new.duration_minutes \div Unit)
    IN  [new EXCEPT !.duration_hours = read.duration_hours,
                    !.duration_hours_e9 = read.duration_hours_e9]

\* the rows of the table without the row of an id
DeleteRow(rows, sessionId) ==
    LET other(row) == row.id # sessionId
    IN  SelectSeq(rows, other)

\* the rows of the table with the row of an id updated
UpdateRow(rows, sessionId, fields) ==
    [k \in 1 .. Len(rows) |->
        IF rows[k].id # sessionId THEN rows[k]
        ELSE calculate_duration_hours(
                 [rows[k] EXCEPT
                     !.duration_minutes = fields.duration_minutes,
                     !.mood_score = fields.mood_score,
                     !.focus_score = fields.focus_score,
                     !.efficiency_score = fields.efficiency_score,
                     !.notes = fields.notes])]

\* now(), when a row is inserted: noon of today, or an hour after the
\* latest row of the table
RECURSIVE Latest(_)
Latest(rows) ==
    IF Len(rows) = 0 THEN 0
    ELSE LET rest == Latest(Tail(rows))
         IN  IF Head(rows).created_at > rest THEN Head(rows).created_at
             ELSE rest

Now(rows) ==
    IF Latest(rows) >= At(Today, 12) THEN Latest(rows) + 1
    ELSE At(Today, 12)

\* the row the table stores for the data of the form
InsertedRow(rows, data) ==
    calculate_duration_hours(
        [id |-> MaxId(rows) + 1,
         created_at |-> Now(rows),
         duration_minutes |-> data.durationMinutes,
         duration_hours |-> 0,
         duration_hours_e9 |-> 0,
         efficiency_score |-> data.efficiencyScore,
         mood_score |-> data.moodScore,
         focus_score |-> data.focusScore,
         notes |-> data.notes])

\* the column duration_minutes is INTEGER: other numbers are refused
Storable(data) == data.durationMinutes % Unit = 0


(***************************************************************************)
(* WeeklyHistory: what it renders                                          *)
(***************************************************************************)
SortOptions ==
    {"date-desc", "date-asc", "efficiency-desc", "efficiency-asc",
     "duration-desc", "duration-asc"}

FilterOptions ==
    {"all", "high-efficiency", "low-efficiency", "long-duration",
     "short-duration"}

\* the sessions created in the week shown
weekSessions(sessions, currentWeek) ==
    LET inWeek(session) == WeekOf(session.created_at) = currentWeek
    IN  SelectSeq(sessions, inWeek)

\* the test of the filter: 0.7 of efficiency, 1 hour of duration
passesFilter(session, filterBy) ==
    IF filterBy = "high-efficiency"
    THEN session.efficiency_score >= Micro(700000)
    ELSE IF filterBy = "low-efficiency"
    THEN session.efficiency_score < Micro(700000)
    ELSE IF filterBy = "long-duration" THEN session.duration_hours >= Unit
    ELSE IF filterBy = "short-duration" THEN session.duration_hours < Unit
    ELSE TRUE

filteredSessions(sessions, currentWeek, filterBy) ==
    LET passes(session) == passesFilter(session, filterBy)
    IN  SelectSeq(weekSessions(sessions, currentWeek), passes)

\* a.duration_hours - b.duration_hours, to its sign when the two differ in
\* the 8th and 9th decimals alone
DurationDifference(a, b) ==
    IF a.duration_hours # b.duration_hours
    THEN a.duration_hours - b.duration_hours
    ELSE a.duration_hours_e9 - b.duration_hours_e9

\* the comparator of the sort: negative when a comes before b
compareSessions(sortBy, a, b) ==
    IF sortBy = "date-desc" THEN b.created_at - a.created_at
    ELSE IF sortBy = "date-asc" THEN a.created_at - b.created_at
    ELSE IF sortBy = "efficiency-desc"
    THEN b.efficiency_score - a.efficiency_score
    ELSE IF sortBy = "efficiency-asc"
    THEN a.efficiency_score - b.efficiency_score
    ELSE IF sortBy = "duration-desc" THEN DurationDifference(b, a)
    ELSE IF sortBy = "duration-asc" THEN DurationDifference(a, b)
    ELSE 0

\* x put into a sorted list behind every element that does not come after it
RECURSIVE InsertSorted(_, _, _)
InsertSorted(sorted, x, sortBy) ==
    IF Len(sorted) = 0 THEN <<x>>
    ELSE IF compareSessions(sortBy, Head(sorted), x) <= 0
    THEN <<Head(sorted)>> \o InsertSorted(Tail(sorted), x, sortBy)
    ELSE <<x>> \o sorted

\* Array.prototype.sort with the comparator: a stable sort
RECURSIVE SortSessions(_, _, _)
SortSessions(sessions, sortBy, sorted) ==
    IF Len(sessions) = 0 THEN sorted
    ELSE SortSessions(Tail(sessions), sortBy,
                      InsertSorted(sorted, Head(sessions), sortBy))

\* the sessions listed under "Detail Sesi"
sortedSessions(sessions, currentWeek, filterBy, sortBy) ==
    SortSessions(filteredSessions(sessions, currentWeek, filterBy), sortBy,
                 <<>>)

\* the weekly summary (the guards for an empty week give 0, as the core's
\* functions do)
weekStats(sessions, currentWeek) ==
    LET ofWeek == weekSessions(sessions, currentWeek)
        durations == Column(ofWeek, "duration_hours")
        efficiencies == Column(ofWeek, "efficiency_score")
    IN  [totalSessions |-> Len(ofWeek),
         totalHours |->
             IF Len(durations) > 0 THEN simpleIntegration(durations, Unit)
             ELSE 0,
         avgDuration |->
             IF Len(durations) > 0 THEN calculateMean(durations) ELSE 0,
         avgEfficiency |->
             IF Len(efficiencies) > 0 THEN calculateMean(efficiencies) ELSE 0,
         supDuration |->
             IF Len(durations) > 0 THEN findSupremum(durations) ELSE 0,
         infDuration |->
             IF Len(durations) > 0 THEN findInfimum(durations) ELSE 0]

\* mutant: the summary computed from the sessions that pass the filter
WeeklyHistory_SummaryOfListed(h) ==
    [weekStats |->
         weekStats(filteredSessions(h.sessions, h.currentWeek, h.filterBy),
                   h.currentWeek),
     sortedSessions |->
         sortedSessions(h.sessions, h.currentWeek, h.filterBy, h.sortBy)]

\* what WeeklyHistory shows in a state h, h.sessions being the sessions it
\* is passed
WeeklyHistory(h) ==
    [weekStats |-> weekStats(h.sessions, h.currentWeek),
     sortedSessions |->
         sortedSessions(h.sessions, h.currentWeek, h.filterBy, h.sortBy)]

(***************************************************************************)
(* WeeklyHistory: its handlers                                             *)
(***************************************************************************)
\* the sessions listed, and their ids
Listed ==
    sortedSessions(hist.sessions, hist.currentWeek, hist.filterBy, hist.sortBy)

ListedIds == {Listed[k].id : k \in 1 .. Len(Listed)}

\* whoever mounts the component passes it the rows of the table
PassSessions ==
    /\ hist.sessions # db
    /\ hist' = [hist EXCEPT !.sessions = db]
    /\ UNCHANGED <<caller, frames, edge, db, net, dash, form, ai, saved, toast>>

\* the user confirms the deletion of a listed session, whose button is not
\* disabled (the edit dialog, when open, covers the list):
\* handleDeleteSession up to its await
handleDeleteSession ==
    /\ ~hist.isEditDialogOpen
    /\ Room
    /\ \E sessionId \in ListedIds :
          /\ hist.deletingId # sessionId
          /\ hist' = [hist EXCEPT !.deletingId = sessionId]
          /\ net' = Append(net, [handler |-> "handleDeleteSession",
                                 sessionId |-> sessionId])
    /\ UNCHANGED <<caller, frames, edge, db, dash, form, ai, saved, toast>>

\* the deletion settles: the row is deleted, or the request fails;
\* deletingId is cleared either way
SettleDeleteSession ==
    \E k \in Awaited("handleDeleteSession"), ok \in BOOLEAN :
        /\ db' = IF ok THEN DeleteRow(db, net[k].sessionId) ELSE db
        /\ toast' = IF ok THEN "Sesi belajar berhasil dihapus"
                    ELSE "Gagal menghapus sesi belajar"
        /\ hist' = [hist EXCEPT !.deletingId = 0]
        /\ net' = Without(k)
        /\ UNCHANGED <<caller, frames, edge, dash, form, ai, saved>>

\* the history opened on a table
InitHistory ==
    /\ NoCall
    /\ db \in Tables
    /\ net = <<>>
    /\ edge = NoRequests
    /\ dash = Dashboard0
    /\ form = StudySessionForm0
    /\ ai = AIRecommendations0
    /\ hist = [WeeklyHistory0 EXCEPT !.sessions = db]
    /\ saved = NoFile
    /\ toast = ""

(***************************************************************************)
(* WeeklyHistory: the week shown, the filter and the sort                  *)
(***************************************************************************)
\* the weeks the history is turned to: from week 0 to the week after this
Weeks == 0 .. ThisWeek + 1

\* the menus of the filter and of the sort are rendered with the block
\* "Detail Sesi", when the week shown has sessions
setFilterBy ==
    /\ Len(weekSessions(hist.sessions, hist.currentWeek)) > 0
    /\ \E option \in FilterOptions \ {hist.filterBy} :
          hist' = [hist EXCEPT !.filterBy = option]
    /\ UNCHANGED <<caller, frames, edge, db, net, dash, form, ai, saved, toast>>

setSortBy ==
    /\ Len(weekSessions(hist.sessions, hist.currentWeek)) > 0
    /\ \E option \in SortOptions \ {hist.sortBy} :
          hist' = [hist EXCEPT !.sortBy = option]
    /\ UNCHANGED <<caller, frames, edge, db, net, dash, form, ai, saved, toast>>

goToPreviousWeek ==
    /\ hist.currentWeek - 1 \in Weeks
    /\ hist' = [hist EXCEPT !.currentWeek = @ - 1]
    /\ UNCHANGED <<caller, frames, edge, db, net, dash, form, ai, saved, toast>>

goToNextWeek ==
    /\ hist.currentWeek + 1 \in Weeks
    /\ hist' = [hist EXCEPT !.currentWeek = @ + 1]
    /\ UNCHANGED <<caller, frames, edge, db, net, dash, form, ai, saved, toast>>

goToCurrentWeek ==
    /\ hist.currentWeek # ThisWeek
    /\ hist' = [hist EXCEPT !.currentWeek = ThisWeek]
    /\ UNCHANGED <<caller, frames, edge, db, net, dash, form, ai, saved, toast>>

NextWeek ==
    \/ setFilterBy
    \/ setSortBy
    \/ goToPreviousWeek
    \/ goToNextWeek
    \/ goToCurrentWeek

SpecWeek == InitHistory /\ [][NextWeek]_vars

(***************************************************************************)
(* Dashboard                                                               *)
(***************************************************************************)
\* fetchSessions settles: the rows selected, or an error; isLoading is
\* cleared either way
SettleFetchSessions ==
    \E k \in Awaited("fetchSessions"), ok \in BOOLEAN :
        /\ dash' = [dash EXCEPT !.sessions = IF ok THEN db ELSE @,
                                !.isLoading = FALSE]
        /\ toast' = IF ok THEN toast ELSE "Gagal memuat sesi"
        /\ net' = Without(k)
        /\ UNCHANGED <<caller, frames, edge, db, form, ai, hist, saved>>

\* the page opened on a table by a signed-in user: the sessions are being
\* fetched
InitPage ==
    /\ NoCall
    /\ db \in Tables
    /\ net = <<[handler |-> "fetchSessions"]>>
    /\ edge = NoRequests
    /\ dash = Dashboard0
    /\ form = StudySessionForm0
    /\ ai = AIRecommendations0
    /\ hist = WeeklyHistory0
    /\ saved = NoFile
    /\ toast = ""

\* what generateStudyPDF writes: the table of statistics of the sessions
\* (its figures are generateStudyPDF(sessions), above), the picture of the
\* chart when html2canvas has drawn it, the table of the sessions, and the
\* section of the recommendations when the text is not empty
StudyPDF(sessions, chart, recommendations) ==
    [written |-> TRUE, sessions |-> sessions, chart |-> chart,
     aiSection |-> recommendations # "", recommendations |-> recommendations]

\* the user clicks "Ekspor PDF", which is enabled when the page is not
\* exporting and has sessions: handleExportPDF and generateStudyPDF up to
\* the await of html2canvas
ClickExportPDF ==
    /\ ~dash.isLoading
    /\ ~dash.isExporting
    /\ Len(dash.sessions) > 0
    /\ Room
    /\ dash' = [dash EXCEPT !.isExporting = TRUE]
    /\ net' = Append(net, [handler |-> "handleExportPDF",
                           sessions |-> dash.sessions,
                           recommendations |-> dash.aiRecommendations])
    /\ UNCHANGED <<caller, frames, edge, db, form, ai, hist, saved, toast>>

\* the name of the file: laporan-belajar-, the date of the day as
\* toISOString prints it (a day of January 2024), and .pdf
fileName ==
    LET digit == <<"0", "1", "2", "3", "4", "5", "6", "7", "8", "9">>
        dayOfMonth == Today + 1
    IN  "laporan-belajar-2024-01-" \o digit[(dayOfMonth \div 10) + 1]
            \o digit[(dayOfMonth % 10) + 1] \o ".pdf"

\* what becomes of an export: the chart is drawn and the file saved, the
\* chart is not drawn (generateStudyPDF catches that) and the file saved
\* without it, or writing the file throws
Exports == {"chart", "no chart", "thrown"}

\* html2canvas settles and generateStudyPDF runs to its end; isExporting is
\* cleared either way
SettleExportPDF ==
    \E k \in Awaited("handleExportPDF"), export \in Exports :
        /\ saved' = IF export = "thrown" THEN saved
                    ELSE StudyPDF(net[k].sessions, export = "chart",
                                  net[k].recommendations)
        /\ toast' = IF export = "thrown" THEN "Gagal mengekspor PDF"
                    ELSE "PDF berhasil diunduh: " \o fileName
        /\ dash' = [dash EXCEPT !.isExporting = FALSE]
        /\ net' = Without(k)
        /\ UNCHANGED <<caller, frames, edge, db, form, ai, hist>>

\* the page opened on a list of sessions whose statistics are printed
InitViews ==
    /\ NoCall
    /\ db \in SessionLists
    /\ net = <<[handler |-> "fetchSessions"]>>
    /\ edge = NoRequests
    /\ dash = Dashboard0
    /\ form = StudySessionForm0
    /\ ai = AIRecommendations0
    /\ hist = WeeklyHistory0
    /\ saved = NoFile
    /\ toast = ""

\* the page: its cards are rendered and its report is exported
NextViews ==
    \/ SettleFetchSessions
    \/ ClickExportPDF
    \/ SettleExportPDF
    \/ Done
    \/ RenderStudyStats

SpecViews == InitViews /\ [][NextViews]_vars

(***************************************************************************)
(* StudySessionForm                                                        *)
(*                                                                         *)
(* The text of the duration field is a sequence of characters.  parseFloat *)
(* reads the longest prefix that is a decimal literal, after leading       *)
(* blanks: a sign, then Infinity or digits with at most one point and an   *)
(* exponent; its value is carried to 7 decimals.                           *)
(***************************************************************************)
DecimalDigits == <<"0", "1", "2", "3", "4", "5", "6", "7", "8", "9">>

IsDigit(c) == \E d \in 1 .. 10 : DecimalDigits[d] = c

DigitValue(c) == (CHOOSE d \in 1 .. 10 : DecimalDigits[d] = c) - 1

\* the index behind the digits that start at index i
RECURSIVE ScanDigits(_, _)
ScanDigits(text, i) ==
    IF i <= Len(text) /\ IsDigit(text[i]) THEN ScanDigits(text, i + 1) ELSE i

\* the index of the first character that is not a blank
RECURSIVE SkipBlanks(_, _)
SkipBlanks(text, i) ==
    IF i <= Len(text) /\ text[i] = " " THEN SkipBlanks(text, i + 1) ELSE i

\* the number written by the digits text[i .. j - 1]
RECURSIVE NumberOf(_, _, _)
NumberOf(text, i, j) ==
    IF j <= i THEN 0
    ELSE 10 * NumberOf(text, i, j - 1) + DigitValue(text[j - 1])

\* the digits text[i .. j - 1] read as a fraction, in units of 10^-7
\* (the eighth digit rounds)
FractionOf(text, i, j) ==
    IF j - i <= 7 THEN NumberOf(text, i, j) * Pow10(7 - (j - i))
    ELSE NumberOf(text, i, i + 7)
             + (IF DigitValue(text[i + 7]) >= 5 THEN 1 ELSE 0)

parseFloat(text) ==
    LET start == SkipBlanks(text, 1)
        signed == start <= Len(text) /\ text[start] \in {"+", "-"}
        sign == IF signed /\ text[start] = "-" THEN -1 ELSE 1
        whole == IF signed THEN start + 1 ELSE start
        point == ScanDigits(text, whole)
        hasPoint == point <= Len(text) /\ text[point] = "."
        last == IF hasPoint THEN ScanDigits(text, point + 1) ELSE point
        digits == (point - whole) + (IF hasPoint THEN last - (point + 1) ELSE 0)
        hasE == last <= Len(text) /\ text[last] \in {"e", "E"}
        eSigned == hasE /\ last + 1 <= Len(text)
                        /\ text[last + 1] \in {"+", "-"}
        eFrom == IF eSigned THEN last + 2 ELSE last + 1
        eTo == IF hasE THEN ScanDigits(text, eFrom) ELSE eFrom
        exponent ==
            IF hasE /\ eTo > eFrom
            THEN (IF eSigned /\ text[last + 1] = "-" THEN -1 ELSE 1)
                     * NumberOf(text, eFrom, eTo)
            ELSE 0
        mantissa ==
            NumberOf(text, whole, point) * Unit
                + (IF hasPoint THEN FractionOf(text, point + 1, last) ELSE 0)
    IN  IF /\ whole + 7 <= Len(text)
           /\ SubSeq(text, whole, whole + 7)
                  = <<"I", "n", "f", "i", "n", "i", "t", "y">>
        THEN IF sign < 0 THEN NegInfinity ELSE PosInfinity
        ELSE IF digits = 0 THEN NaN
        ELSE IF exponent >= 0 THEN Finite(sign * mantissa * Pow10(exponent))
        ELSE Finite(sign * RoundHalfAway(mantissa, Pow10(-exponent)))

\* the texts of the duration field: "", "90", "9e1", "45.5", "0", "-5",
\* "abc", "Infinity", "12.3456789" and " 30 min"
Texts ==
    {<<>>, <<"9", "0">>, <<"9", "e", "1">>, <<"4", "5", ".", "5">>, <<"0">>,
     <<"-", "5">>, <<"a", "b", "c">>,
     <<"I", "n", "f", "i", "n", "i", "t", "y">>,
     <<"1", "2", ".", "3", "4", "5", "6", "7", "8", "9">>,
     <<" ", "3", "0", " ", "m", "i", "n">>}

\* the positions the sliders are put in: mood and focus from 0 to 10,
\* efficiency from 0 to 1
Scores == {10 * Unit}

Efficiencies == {Micro(250000)}

\* the fields are disabled while the form is submitting, and the form is
\* not shown while the page is loading
Editable == ~dash.isLoading /\ ~form.isSubmitting

setDurationMinutes ==
    /\ Editable
    /\ \E text \in Texts : form' = [form EXCEPT !.durationMinutes = text]
    /\ UNCHANGED <<caller, frames, edge, db, net, dash, ai, hist, saved, toast>>

\* the sliders
setMoodScore ==
    /\ Editable
    /\ \E score \in Scores : form' = [form EXCEPT !.moodScore = score]
    /\ UNCHANGED <<caller, frames, edge, db, net, dash, ai, hist, saved, toast>>

setFocusScore ==
    /\ Editable
    /\ \E score \in Scores : form' = [form EXCEPT !.focusScore = score]
    /\ UNCHANGED <<caller, frames, edge, db, net, dash, ai, hist, saved, toast>>

setEfficiencyScore ==
    /\ Editable
    /\ \E score \in Efficiencies :
           form' = [form EXCEPT !.efficiencyScore = score]
    /\ UNCHANGED <<caller, frames, edge, db, net, dash, ai, hist, saved, toast>>

\* the texts of the notes
Notes == {"", "tired"}

setNotes ==
    /\ Editable
    /\ \E text \in Notes : form' = [form EXCEPT !.notes = text]
    /\ UNCHANGED <<caller, frames, edge, db, net, dash, ai, hist, saved, toast>>

\* mutant: the scores passed as the sliders hold them and the duration as
\* it was parsed
SubmittedData_Unrounded(f, durationReal) ==
    [durationMinutes |-> parseFloat(f.durationMinutes).v,
     moodScore |-> f.moodScore,
     focusScore |-> f.focusScore,
     efficiencyScore |-> f.efficiencyScore,
     notes |-> f.notes]

\* the data handleSubmit passes to onSubmit
SubmittedData(f, durationReal) ==
    [durationMinutes |-> durationReal.value,
     moodScore |-> clampReal(f.moodScore, 0, 10 * Unit),
     focusScore |-> clampReal(f.focusScore, 0, 10 * Unit),
     efficiencyScore |-> clampReal(f.efficiencyScore, 0, Unit),
     notes |-> f.notes]

\* the form is submitted: handleSubmit up to its await, which is the first
\* await of handleNewSession, of get_week_start (the user is set whenever
\* the form is shown: the page is loading until fetchSessions has run)
handleSubmit ==
    /\ Editable
    /\ LET durationReal == createReal(parseFloat(form.durationMinutes))
       IN  IF ~durationReal.isValid
           THEN /\ toast' = durationReal.errorMessage
                /\ UNCHANGED <<form, net>>
           ELSE /\ Room
                /\ form' = [form EXCEPT !.isSubmitting = TRUE]
                /\ net' = Append(net, [handler |-> "handleSubmit",
                                       stage |-> "get_week_start",
                                       data |-> SubmittedData(form,
                                                              durationReal)])
                /\ UNCHANGED toast
    /\ UNCHANGED <<caller, frames, edge, db, dash, ai, hist, saved>>

\* the requests of a handler that are at a stage
AwaitedAt(handler, stage) ==
    {k \in Awaited(handler) : net[k].stage = stage}

\* get_week_start settles: whatever it answers, handleNewSession sends the
\* insert (the error is not looked at, and the date of today stands in for
\* a week start that is missing)
SettleWeekStart ==
    \E k \in AwaitedAt("handleSubmit", "get_week_start") :
        /\ net' = [net EXCEPT ![k].stage = "insert"]
        /\ UNCHANGED <<caller, frames, edge, db, dash, form, ai, hist, saved, toast>>

\* the insert settles: the row is stored and handleNewSession goes on to
\* fetchSessions, or the insert is refused and handleSubmit shows the
\* error; the table holds at most MaxLen rows
SettleInsert ==
    \E k \in AwaitedAt("handleSubmit", "insert"), ok \in BOOLEAN :
        /\ ok => /\ Storable(net[k].data)
                 /\ Len(db) < MaxLen
        /\ IF ok
           THEN /\ db' = Append(db, InsertedRow(db, net[k].data))
                /\ net' = [net EXCEPT ![k].stage = "fetchSessions"]
                /\ UNCHANGED <<form, toast>>
           ELSE /\ toast' = "error.message"
                /\ form' = [form EXCEPT !.isSubmitting = FALSE]
                /\ net' = Without(k)
                /\ UNCHANGED db
        /\ UNCHANGED <<caller, frames, edge, dash, ai, hist, saved>>

\* fetchSessions, awaited by handleNewSession, settles: it catches its own
\* error, so handleSubmit resets the form either way
SettleSubmit ==
    \E k \in AwaitedAt("handleSubmit", "fetchSessions"), ok \in BOOLEAN :
        /\ dash' = [dash EXCEPT !.sessions = IF ok THEN db ELSE @,
                                !.isLoading = FALSE]
        /\ form' = [StudySessionForm0 EXCEPT !.isSubmitting = FALSE]
        /\ toast' = "Sesi belajar berhasil dicatat!"
        /\ net' = Without(k)
        /\ UNCHANGED <<caller, frames, edge, db, ai, hist, saved>>

\* the form on a page whose table has room for one more row
InitForm ==
    /\ InitPage
    /\ Len(db) >= MaxLen - 1

NextForm ==
    \/ SettleFetchSessions
    \/ setDurationMinutes
    \/ setMoodScore
    \/ setFocusScore
    \/ setEfficiencyScore
    \/ setNotes
    \/ handleSubmit
    \/ SettleWeekStart
    \/ SettleInsert
    \/ SettleSubmit

SpecForm == InitForm /\ [][NextForm]_vars

(***************************************************************************)
(* AIRecommendations                                                       *)
(*                                                                         *)
(* The component is passed the sessions of the page.  Its buttons are      *)
(* disabled while it is loading; "Buat Rekomendasi" is disabled as well    *)
(* when there are fewer than 3 sessions, "Perbarui Rekomendasi" is not.    *)
(***************************************************************************)
\* one of the buttons is clicked: fetchRecommendations up to its await.
\* With fewer than 3 sessions it returns at once, which the second button
\* allows when the page has come to hold fewer sessions
fetchRecommendations ==
    /\ ~dash.isLoading
    /\ ~ai.isLoading
    /\ ai.recommendations = "" => Len(dash.sessions) >= MinSessions
    /\ IF Len(dash.sessions) < MinSessions
       THEN /\ toast' = "Minimal 3 sesi belajar diperlukan untuk rekomendasi AI"
            /\ UNCHANGED <<ai, net>>
       ELSE /\ Room
            /\ ai' = [ai EXCEPT !.isLoading = TRUE]
            /\ net' = Append(net, [handler |-> "fetchRecommendations",
                                   stage |-> "sent",
                                   body |->
                                       WithSessions(Array(dash.sessions))])
            /\ UNCHANGED toast
    /\ UNCHANGED <<caller, frames, edge, db, dash, form, hist, saved>>

\* the request of the page arrives at the function
InvokeArrives ==
    \E k \in AwaitedAt("fetchRecommendations", "sent") :
        /\ edge["page"] = NoRequest
        /\ edge' = [edge EXCEPT !["page"] = Arrived("POST", net[k].body)]
        /\ net' = [net EXCEPT ![k].stage = "arrived"]
        /\ UNCHANGED <<caller, frames, db, dash, form, ai, hist, saved, toast>>

\* the page receives the response of the function: the recommendations are
\* set when its status is 200; isLoading is cleared either way
SettleFetchRecommendations ==
    \E k \in AwaitedAt("fetchRecommendations", "arrived") :
        /\ edge["page"].at = "responded"
        /\ LET ok == edge["page"].status = 200
           IN  /\ ai' = [recommendations |->
                             IF ok THEN edge["page"].recommendations
                             ELSE ai.recommendations,
                         isLoading |-> FALSE]
               /\ toast' = IF ok THEN "Rekomendasi AI berhasil dibuat!"
                           ELSE "Edge Function returned a non-2xx status code"
        /\ edge' = [edge EXCEPT !["page"] = NoRequest]
        /\ net' = Without(k)
        /\ UNCHANGED <<caller, frames, db, dash, form, hist, saved>>

\* the request of the page does not reach the function: invoke answers
\* with an error, and isLoading is cleared
FailFetchRecommendations ==
    \E k \in AwaitedAt("fetchRecommendations", "sent") :
        /\ ai' = [ai EXCEPT !.isLoading = FALSE]
        /\ toast' = "Failed to send a request to the Edge Function"
        /\ net' = Without(k)
        /\ UNCHANGED <<caller, frames, edge, db, dash, form, hist, saved>>

\* the session without one of its fields
Lacking(session, field) ==
    [f \in DOMAIN session \ {field} |-> session[f]]

\* the first n rows of the table
FirstRows(n) == [k \in 1 .. n |-> Row(k)]

\* the bodies posted to the function by the other client: one that is not
\* JSON, null, {}; sessions that are no list: 0, 5, "ab" and "abc"; the
\* first 0 to 3 rows of the table; 3 empty objects; 3 rows without their
\* efficiency; and 6 sessions of which the first, which is not printed, is
\* an empty object
PostedBodies ==
    {NotJson, NullBody, EmptyObject,
     WithSessions(NotArray(FALSE, <<>>)),
     WithSessions(NotArray(TRUE, <<>>)),
     WithSessions(NotArray(TRUE, <<MinSessions - 1>>)),
     WithSessions(NotArray(TRUE, <<MinSessions>>)),
     WithSessions(Array(<<<<>>, <<>>, <<>>>>)),
     WithSessions(Array([k \in 1 .. MinSessions |->
                            Lacking(Row(k), "efficiency_score")])),
     WithSessions(Array(<<<<>>>> \o FirstRows(MinSessions)
                            \o FirstRows(MinSessions - 1)))}
    \cup {WithSessions(Array(FirstRows(n))) : n \in 0 .. MinSessions}

\* a request of the other client arrives: a preflight, which has no body,
\* or a POST
PostStudyRecommendations ==
    /\ edge["other"] = NoRequest
    /\ \/ edge' = [edge EXCEPT !["other"] = Arrived("OPTIONS", NotJson)]
       \/ \E body \in PostedBodies :
              edge' = [edge EXCEPT !["other"] = Arrived("POST", body)]
    /\ UNCHANGED <<caller, frames, db, net, dash, form, ai, hist, saved, toast>>

\* supabase-js reports a session whose user is another object than the one
\* the page holds (as after a token is refreshed): setUser, and the effect
\* on the user calls fetchSessions.  A report with the same user changes
\* nothing, and one without a session leaves the page.
onAuthStateChange ==
    /\ Room
    /\ net' = Append(net, [handler |-> "fetchSessions"])
    /\ UNCHANGED <<caller, frames, edge, db, dash, form, ai, hist, saved,
                   toast>>

\* the user deletes the newest row of the table from another client, as
\* the policy of the table lets them
DeleteElsewhere ==
    /\ Len(db) > 0
    /\ db' = DeleteRow(db, db[Len(db)].id)
    /\ UNCHANGED <<caller, frames, edge, net, dash, form, ai, hist, saved,
                   toast>>

NextAdvice ==
    \/ SettleFetchSessions
    \/ onAuthStateChange
    \/ DeleteElsewhere
    \/ fetchRecommendations
    \/ InvokeArrives
    \/ FailFetchRecommendations
    \/ SettleFetchRecommendations
    \/ ClickExportPDF
    \/ SettleExportPDF
    \/ ResumeReqJson
    \/ ResumeFetch
    \/ ResumeText
    \/ ResumeJson

SpecAdvice == InitPage /\ [][NextAdvice]_vars

\* the function serves the page and another client, which posts what it
\* likes
NextGateway ==
    \/ SettleFetchSessions
    \/ onAuthStateChange
    \/ DeleteElsewhere
    \/ fetchRecommendations
    \/ InvokeArrives
    \/ FailFetchRecommendations
    \/ SettleFetchRecommendations
    \/ PostStudyRecommendations
    \/ ResumeReqJson
    \/ ResumeFetch
    \/ ResumeText
    \/ ResumeJson
    \/ Respond

SpecGateway == InitPage /\ [][NextGateway]_vars

(***************************************************************************)
(* WeeklyHistory: the edit dialog                                          *)
(***************************************************************************)
\* the user clicks the pencil of a listed session (the dialog, when open,
\* covers the list)
handleEditClick ==
    /\ ~hist.isEditDialogOpen
    /\ \E k \in 1 .. Len(Listed) :
          LET session == Listed[k]
          IN  hist' = [hist EXCEPT !.editingSession = session,
                                   !.editDuration = session.duration_minutes,
                                   !.editMood = session.mood_score,
                                   !.editFocus = session.focus_score,
                                   !.editEfficiency = session.efficiency_score,
                                   !.editNotes = session.notes,
                                   !.isEditDialogOpen = TRUE]
    /\ UNCHANGED <<caller, frames, edge, db, net, dash, form, ai, saved, toast>>

\* a session is being edited in the open dialog: the fields and the two
\* buttons of the dialog are rendered
Editing == hist.isEditDialogOpen /\ hist.editingSession # NoSession

\* parseInt of a decimal text: the digits after leading blanks and a sign,
\* up to the first character that is not a digit
parseInt(text) ==
    LET start == SkipBlanks(text, 1)
        signed == start <= Len(text) /\ text[start] \in {"+", "-"}
        sign == IF signed /\ text[start] = "-" THEN -1 ELSE 1
        whole == IF signed THEN start + 1 ELSE start
        last == ScanDigits(text, whole)
    IN  IF last = whole THEN NaN
        ELSE Finite(sign * NumberOf(text, whole, last))

\* the minutes the dialog keeps for a text of its duration field:
\* Math.max(1, parseInt(text) || 1)
EditedDuration(text) ==
    LET parsed == parseInt(text)
        minutes == IF isNaN(parsed) \/ parsed.v = 0 THEN 1 ELSE parsed.v
    IN  (IF minutes > 1 THEN minutes ELSE 1) * Unit

\* the texts of the dialog's duration field: "", "9e1" and "-5"
EditTexts == {<<>>, <<"9", "e", "1">>, <<"-", "5">>}

\* the positions of the dialog's sliders: mood and focus from 1 to 10 in
\* steps of 0.5, efficiency from 0 to 100 in steps of 5
EditScores == {Micro(7500000)}

EditPercents == {55}

setEditDuration ==
    /\ Editing
    /\ \E text \in EditTexts :
          hist' = [hist EXCEPT !.editDuration = EditedDuration(text)]
    /\ UNCHANGED <<caller, frames, edge, db, net, dash, form, ai, saved, toast>>

setEditMood ==
    /\ Editing
    /\ \E v \in EditScores : hist' = [hist EXCEPT !.editMood = v]
    /\ UNCHANGED <<caller, frames, edge, db, net, dash, form, ai, saved, toast>>

setEditFocus ==
    /\ Editing
    /\ \E v \in EditScores : hist' = [hist EXCEPT !.editFocus = v]
    /\ UNCHANGED <<caller, frames, edge, db, net, dash, form, ai, saved, toast>>

setEditEfficiency ==
    /\ Editing
    /\ \E v \in EditPercents :
          hist' = [hist EXCEPT !.editEfficiency = (v * Unit) \div 100]
    /\ UNCHANGED <<caller, frames, edge, db, net, dash, form, ai, saved, toast>>

setEditNotes ==
    /\ Editing
    /\ \E text \in Notes : hist' = [hist EXCEPT !.editNotes = text]
    /\ UNCHANGED <<caller, frames, edge, db, net, dash, form, ai, saved, toast>>

\* the user clicks "Batal", presses Escape or clicks outside the dialog:
\* the dialog closes and the session and the fields stay as they are
setIsEditDialogOpen ==
    /\ hist.isEditDialogOpen
    /\ hist' = [hist EXCEPT !.isEditDialogOpen = FALSE]
    /\ UNCHANGED <<caller, frames, edge, db, net, dash, form, ai, saved, toast>>

\* the row of an id is as the table was opened with it
Unedited(rows, sessionId) ==
    \A k \in 1 .. Len(rows) : rows[k].id = sessionId => rows[k] = Row(sessionId)

\* the user clicks "Simpan", which is disabled while saving: handleSaveEdit
\* up to its await.  The edits of a row are followed up to its first
\* update.
handleSaveEdit ==
    /\ Editing
    /\ ~hist.isSaving
    /\ Unedited(db, hist.editingSession.id)
    /\ Room
    /\ hist' = [hist EXCEPT !.isSaving = TRUE]
    /\ net' = Append(net, [handler |-> "handleSaveEdit",
                           sessionId |-> hist.editingSession.id,
                           fields |-> [duration_minutes |-> hist.editDuration,
                                       mood_score |-> hist.editMood,
                                       focus_score |-> hist.editFocus,
                                       efficiency_score |->
                                           hist.editEfficiency,
                                       notes |-> hist.editNotes]])
    /\ UNCHANGED <<caller, frames, edge, db, dash, form, ai, saved, toast>>

\* mutant: isSaving cleared only when the update succeeded
SettleSaveEdit_FlagKeptOnError ==
    \E k \in Awaited("handleSaveEdit"), ok \in BOOLEAN :
        /\ db' = IF ok THEN UpdateRow(db, net[k].sessionId, net[k].fields)
                 ELSE db
        /\ toast' = IF ok THEN "Sesi belajar berhasil diperbarui"
                    ELSE "Gagal memperbarui sesi belajar"
        /\ hist' = IF ok
                   THEN [hist EXCEPT !.isEditDialogOpen = FALSE,
                                     !.editingSession = NoSession,
                                     !.isSaving = FALSE]
                   ELSE hist
        /\ net' = Without(k)
        /\ UNCHANGED <<caller, frames, edge, dash, form, ai, saved>>

\* the update settles: the row is updated and the dialog closed, or the
\* request fails; isSaving is cleared either way
SettleSaveEdit ==
    \E k \in Awaited("handleSaveEdit"), ok \in BOOLEAN :
        /\ db' = IF ok THEN UpdateRow(db, net[k].sessionId, net[k].fields)
                 ELSE db
        /\ toast' = IF ok THEN "Sesi belajar berhasil diperbarui"
                    ELSE "Gagal memperbarui sesi belajar"
        /\ hist' = IF ok
                   THEN [hist EXCEPT !.isEditDialogOpen = FALSE,
                                     !.editingSession = NoSession,
                                     !.isSaving = FALSE]
                   ELSE [hist EXCEPT !.isSaving = FALSE]
        /\ net' = Without(k)
        /\ UNCHANGED <<caller, frames, edge, dash, form, ai, saved>>

\* the history opened on a table of two rows, the second of which is of
\* the week shown
InitEdit ==
    /\ InitHistory
    /\ Len(db) = 2

\* the history: a session is edited
NextEdit ==
    \/ PassSessions
    \/ handleEditClick
    \/ setEditDuration
    \/ setEditMood
    \/ setEditFocus
    \/ setEditEfficiency
    \/ setEditNotes
    \/ setIsEditDialogOpen
    \/ handleSaveEdit
    \/ SettleSaveEdit

SpecEdit == InitEdit /\ [][NextEdit]_vars

\* the history: its sessions are deleted, and the edit dialog is opened
\* and closed over the list
NextDelete ==
    \/ handleDeleteSession
    \/ SettleDeleteSession
    \/ PassSessions
    \/ handleEditClick
    \/ setIsEditDialogOpen

SpecDelete == InitHistory /\ [][NextDelete]_vars

(***************************************************************************)
(* The handlers that hold a busy flag while they await                     *)
(***************************************************************************)
\* the durations typed in the form when the handlers are followed: one
\* that is stored or refused by the table, one that is not a number
BusyTexts == {<<"9", "0">>, <<"a", "b", "c">>}

\* a page whose table has room for one more row: its sessions have been
\* fetched, a duration has been typed in the form, and the history is open
\* on the rows of the table
InitBusy ==
    /\ NoCall
    /\ db \in Tables
    /\ Len(db) = MaxLen - 1
    /\ net = <<>>
    /\ edge = NoRequests
    /\ dash = [Dashboard0 EXCEPT !.sessions = db, !.isLoading = FALSE]
    /\ form \in {[StudySessionForm0 EXCEPT !.durationMinutes = text] :
                    text \in BusyTexts}
    /\ ai = AIRecommendations0
    /\ hist = [WeeklyHistory0 EXCEPT !.sessions = db]
    /\ saved = NoFile
    /\ toast = ""

NextBusy ==
    \/ handleSubmit
    \/ SettleWeekStart
    \/ SettleInsert
    \/ SettleSubmit
    \/ fetchRecommendations
    \/ InvokeArrives
    \/ FailFetchRecommendations
    \/ ResumeReqJson
    \/ ResumeFetch
    \/ ResumeText
    \/ ResumeJson
    \/ SettleFetchRecommendations
    \/ ClickExportPDF
    \/ SettleExportPDF
    \/ handleEditClick
    \/ setIsEditDialogOpen
    \/ handleSaveEdit
    \/ SettleSaveEdit

\* every awaited request settles: the requests of the page, and those of
\* the edge function while it serves the page
Settles ==
    /\ WF_vars(SettleWeekStart)
    /\ WF_vars(SettleInsert)
    /\ WF_vars(SettleSubmit)
    /\ WF_vars(InvokeArrives)
    /\ WF_vars(ResumeReqJson)
    /\ WF_vars(ResumeFetch)
    /\ WF_vars(ResumeText)
    /\ WF_vars(ResumeJson)
    /\ WF_vars(SettleFetchRecommendations)
    /\ WF_vars(SettleExportPDF)
    /\ WF_vars(SettleSaveEdit)

SpecBusy == InitBusy /\ [][NextBusy]_vars /\ Settles

(***************************************************************************)
(* Sessions of one duration                                                *)
(***************************************************************************)
\* the minutes of the sessions: their hours are read as 0.6666667, 0.75,
\* 0.8333333, 1.0833334, 1.1666666, 1.3333334, 1.5, 1.6666666, 1.8333334
\* and 3.3333333, of which the mean is rounded to 4 decimals
RepeatedMinutes == {40, 45, 50, 65, 70, 80, 90, 100, 110, 200}

\* n sessions of the same number of minutes
Repeated(minutes, n) ==
    [k \in 1 .. n |->
        Session(RealRead(minutes).duration_hours, Micro(500000),
                Micro(600000), Micro(800000))]

\* the dashboard renders its cards from sessions of one duration
RenderRepeated ==
    /\ Idle
    /\ \E minutes \in RepeatedMinutes, n \in 1 .. MaxLen :
          LET sessions == Repeated(minutes, n)
          IN  Call("StudyStats", [sessions |-> sessions],
                   StudyStats(sessions))

CallVarianceOfRepeated ==
    /\ Idle
    /\ \E minutes \in RepeatedMinutes, n \in 1 .. MaxLen :
          LET values == Column(Repeated(minutes, n), "duration_hours")
          IN  Call("calculateVariance", [values |-> values],
                   calculateVariance(values))

CallStdDevOfRepeated ==
    /\ Idle
    /\ \E minutes \in RepeatedMinutes, n \in 1 .. MaxLen :
          LET values == Column(Repeated(minutes, n), "duration_hours")
          IN  Call("calculateStdDev", [values |-> values],
                   calculateStdDev(values))

NextRepeated ==
    \/ CallVarianceOfRepeated
    \/ CallStdDevOfRepeated
    \/ Done
    \/ RenderRepeated

SpecRepeated == Init /\ [][NextRepeated]_vars

(***************************************************************************)
(* The library at the end of the range of doubles                          *)
(*                                                                         *)
(* The largest double is 2^1024 - 2^971 (1.7976931348623157e308), and a    *)
(* sum, difference or product whose exact value reaches 2^1024 - 2^970     *)
(* rounds to Infinity.  Here an argument is a whole number k, -7 <= k <=   *)
(* 7, standing for the double k * 2^1021 (7 * 2^1021 is 1.57e308), and a   *)
(* value computed from such arguments is one of                            *)
(*   Scaled(num, den)  the double nearest to num / den * 2^1021, den > 0,  *)
(*   Ratio(num, den)   the quotient num / den of two such doubles, den > 0,*)
(*   Finite(v)         v units of 10^-7, as everywhere else,               *)
(*   PosInfinity, NegInfinity, NaN.                                        *)
(* Sums and differences of arguments are whole multiples of 2^1021 and     *)
(* exact; they overflow from 8 * 2^1021 = 2^1024 on.  A quotient by the    *)
(* length of the sequence is rounded once, and is afterwards only          *)
(* returned, or subtracted from an argument and squared.  Multipliers      *)
(* (interval, alpha) are whole numbers, so that the products are exact.    *)
(***************************************************************************)
Scaled(num, den) == [kind |-> "scaled", num |-> num, den |-> den]

Ratio(num, den) == [kind |-> "ratio", num |-> num, den |-> den]

\* the double for the exact value num / den * 2^1021 (den > 0)
Rounded(num, den) ==
    IF num >= 8 * den THEN PosInfinity
    ELSE IF -num >= 8 * den THEN NegInfinity
    ELSE Scaled(num, den)

\* 1, 0 or -1 for a value that is not NaN
SignOf(x) ==
    IF x.kind = "Infinity" THEN 1
    ELSE IF x.kind = "-Infinity" THEN -1
    ELSE Sgn(x.num)

InfinityOf(sign) == IF sign > 0 THEN PosInfinity ELSE NegInfinity

\* x + y
AddHuge(x, y) ==
    IF isNaN(x) \/ isNaN(y) THEN NaN
    ELSE IF x.kind = "scaled" /\ y.kind = "scaled"
    THEN Rounded(x.num * y.den + y.num * x.den, x.den * y.den)
    ELSE IF x.kind = "scaled" THEN y
    ELSE IF y.kind = "scaled" THEN x
    ELSE IF x.kind = y.kind THEN x
    ELSE NaN

\* x - y
SubHuge(x, y) ==
    AddHuge(x, IF isNaN(y) THEN NaN
               ELSE IF y.kind = "scaled" THEN Scaled(-y.num, y.den)
               ELSE InfinityOf(-SignOf(y)))

\* x * y for two values of this range: the product of two that are not 0
\* is beyond 2^1024
MulHuge(x, y) ==
    IF isNaN(x) \/ isNaN(y) THEN NaN
    ELSE IF SignOf(x) = 0 \/ SignOf(y) = 0
    THEN IF x.kind = "scaled" /\ y.kind = "scaled" THEN Scaled(0, 1) ELSE NaN
    ELSE InfinityOf(SignOf(x) * SignOf(y))

\* n * x for a whole number n
TimesHuge(n, x) ==
    IF isNaN(x) THEN NaN
    ELSE IF x.kind = "scaled" THEN Rounded(n * x.num, x.den)
    ELSE IF n = 0 THEN NaN
    ELSE InfinityOf(Sgn(n) * SignOf(x))

\* x / n for a whole number n > 0
OverHuge(x, n) ==
    IF x.kind = "scaled" THEN Scaled(x.num, x.den * n) ELSE x

\* x / y for y # 0
QuotientHuge(x, y) ==
    IF isNaN(x) \/ isNaN(y) THEN NaN
    ELSE IF x.kind = "scaled" /\ y.kind = "scaled"
    THEN Ratio(Sign(y.num) * x.num * y.den, x.den * Abs(y.num))
    ELSE IF x.kind = "scaled" THEN Ratio(0, 1)
    ELSE IF y.kind = "scaled" THEN InfinityOf(SignOf(x) * SignOf(y))
    ELSE NaN

\* Math.sqrt(x) for the values a variance takes here
SqrtHuge(x) ==
    CASE isNaN(x) -> NaN
      [] x.kind = "-Infinity" -> NaN
      [] x.kind = "Infinity" -> PosInfinity
      [] x.kind = "scaled" /\ x.num = 0 -> x
      [] x.kind = "scaled" /\ x.num < 0 -> NaN

\* parseFloat(x.toFixed(4)): from 1e21 on toFixed gives the shortest
\* decimal that reads back as x, and "NaN", "Infinity" and "-Infinity" read
\* back as what they name; 0 gives "0.0000"
ToFixedHuge(x) ==
    IF isNaN(x) THEN NaN
    ELSE IF x.kind = "Infinity" THEN PosInfinity
    ELSE IF x.kind = "-Infinity" THEN NegInfinity
    ELSE IF x.num = 0 THEN Scaled(0, 1)
    ELSE x

RECURSIVE SumLoopHuge(_, _, _)
SumLoopHuge(values, i, sum) ==
    IF i > Len(values) THEN sum
    ELSE SumLoopHuge(values, i + 1, AddHuge(sum, Scaled(values[i], 1)))

calculateMeanHuge(values) ==
    IF Len(values) = 0 THEN Scaled(0, 1)
    ELSE LET sum == SumLoopHuge(values, 1, Scaled(0, 1))
             mean == OverHuge(sum, Len(values))
         IN  ToFixedHuge(mean)

RECURSIVE IntegrationLoopHuge(_, _, _, _)
IntegrationLoopHuge(values, interval, i, total) ==
    IF i > Len(values) THEN total
    ELSE IntegrationLoopHuge(values, interval, i + 1,
             AddHuge(total, TimesHuge(interval, Scaled(values[i], 1))))

simpleIntegrationHuge(values, interval) ==
    IF Len(values) = 0 THEN Scaled(0, 1)
    ELSE LET total == IntegrationLoopHuge(values, interval, 1, Scaled(0, 1))
         IN  ToFixedHuge(total)

movingAverageHuge(previousAverage, newValue, alpha) ==
    LET smoothed == AddHuge(TimesHuge(1 - alpha, Scaled(previousAverage, 1)),
                            TimesHuge(alpha, Scaled(newValue, 1)))
    IN  ToFixedHuge(smoothed)

RECURSIVE SquaredDiffLoopHuge(_, _, _, _)
SquaredDiffLoopHuge(values, mean, i, sumSquaredDiff) ==
    IF i > Len(values) THEN sumSquaredDiff
    ELSE LET diff == SubHuge(Scaled(values[i], 1), mean)
         IN  SquaredDiffLoopHuge(values, mean, i + 1,
                 AddHuge(sumSquaredDiff, MulHuge(diff, diff)))

calculateVarianceHuge(values) ==
    IF Len(values) = 0 THEN Scaled(0, 1)
    ELSE LET mean == calculateMeanHuge(values)
             sumSquaredDiff ==
                 SquaredDiffLoopHuge(values, mean, 1, Scaled(0, 1))
             variance == OverHuge(sumSquaredDiff, Len(values))
         IN  ToFixedHuge(variance)

calculateStdDevHuge(values) ==
    LET variance == calculateVarianceHuge(values)
    IN  ToFixedHuge(SqrtHuge(variance))

\* the quotient of two doubles of this range is an ordinary number, which
\* toFixed(4) rounds
calculateZScoreHuge(value, mean, stdDev) ==
    IF stdDev = 0 THEN Finite(0)
    ELSE LET q == QuotientHuge(SubHuge(Scaled(value, 1), Scaled(mean, 1)),
                               Scaled(stdDev, 1))
         IN  IF q.kind = "ratio"
             THEN Finite(QuotientToFixed(q.num, q.den, 4))
             ELSE q

\* clampReal(value, 0, 1) for a quotient: no comparison holds for NaN
clampRatio(value) ==
    IF isNaN(value) THEN NaN
    ELSE IF SignOf(value) < 0 THEN Ratio(0, 1)
    ELSE IF value.kind = "Infinity" \/ value.num > value.den THEN Ratio(1, 1)
    ELSE value

normalizeHuge(value, min, max) ==
    IF max = min THEN Ratio(0, 1)
    ELSE LET normalized ==
                 QuotientHuge(SubHuge(Scaled(value, 1), Scaled(min, 1)),
                              SubHuge(Scaled(max, 1), Scaled(min, 1)))
         IN  clampRatio(normalized)

\* arguments: -7, -4, 0, 1, 4 and 7 times 2^1021
HugeValues == {-7, -4, 0, 1, 4, 7}

RECURSIVE HugeSeqsOfLen(_)
HugeSeqsOfLen(n) ==
    IF n = 0 THEN {<<>>}
    ELSE {Append(s, v) : s \in HugeSeqsOfLen(n - 1), v \in HugeValues}

HugeSequences == UNION {HugeSeqsOfLen(n) : n \in 0 .. MaxLen}

\* whole multipliers: intervals and smoothing factors
Multipliers == {-1, 0, 1, 2, 3}

\* the functions that only compare and move their arguments are the ones of
\* the library above, on the numbers k
HugeCalculateMean ==
    /\ Idle
    /\ \E values \in HugeSequences :
            Call("calculateMean", [values |-> values],
                 calculateMeanHuge(values))

HugeFindSupremum ==
    /\ Idle
    /\ \E values \in HugeSequences :
            Call("findSupremum", [values |-> values],
                 Scaled(findSupremum(values), 1))

HugeFindInfimum ==
    /\ Idle
    /\ \E values \in HugeSequences :
            Call("findInfimum", [values |-> values],
                 Scaled(findInfimum(values), 1))

HugeSimpleIntegration ==
    /\ Idle
    /\ \E values \in HugeSequences, interval \in Multipliers :
            Call("simpleIntegration",
                 [values |-> values, interval |-> interval],
                 simpleIntegrationHuge(values, interval))

HugeMovingAverage ==
    /\ Idle
    /\ \E previousAverage \in HugeValues, newValue \in HugeValues,
          alpha \in Multipliers :
            Call("movingAverage",
                 [previousAverage |-> previousAverage, newValue |-> newValue,
                  alpha |-> alpha],
                 movingAverageHuge(previousAverage, newValue, alpha))

HugeCalculateVariance ==
    /\ Idle
    /\ \E values \in HugeSequences :
            Call("calculateVariance", [values |-> values],
                 calculateVarianceHuge(values))

HugeCalculateStdDev ==
    /\ Idle
    /\ \E values \in HugeSequences :
            Call("calculateStdDev", [values |-> values],
                 calculateStdDevHuge(values))

HugeCalculateZScore ==
    /\ Idle
    /\ \E value \in HugeValues, mean \in HugeValues, stdDev \in HugeValues :
            Call("calculateZScore",
                 [value |-> value, mean |-> mean, stdDev |-> stdDev],
                 calculateZScoreHuge(value, mean, stdDev))

HugeNormalize ==
    /\ Idle
    /\ \E value \in HugeValues, min \in HugeValues, max \in HugeValues :
            Call("normalize", [value |-> value, min |-> min, max |-> max],
                 normalizeHuge(value, min, max))

HugeClampReal ==
    /\ Idle
    /\ \E value \in HugeValues, min \in HugeValues, max \in HugeValues :
            Call("clampReal", [value |-> value, min |-> min, max |-> max],
                 Scaled(clampReal(value, min, max), 1))

HugeSortReals ==
    /\ Idle
    /\ \E values \in HugeSequences :
            LET result == sortRealsOnHeap(<<values>>, 1)
                sorted == result.heap[result.ref]
            IN  /\ fn' = "sortReals"
                /\ args' = [values |-> values]
                /\ ret' = [k \in 1 .. Len(sorted) |-> Scaled(sorted[k], 1)]
                /\ heap' = result.heap
                /\ ref' = result.ref
                /\ UNCHANGED others

NextHuge ==
    \/ HugeCalculateMean
    \/ HugeFindSupremum
    \/ HugeFindInfimum
    \/ HugeSimpleIntegration
    \/ HugeMovingAverage
    \/ HugeCalculateVariance
    \/ HugeCalculateStdDev
    \/ HugeCalculateZScore
    \/ HugeNormalize
    \/ HugeClampReal
    \/ HugeSortReals
    \/ Done

SpecHuge == Init /\ [][NextHuge]_vars

(***************************************************************************)
(* Properties                                                              *)
(***************************************************************************)
\* the scenario of the specification: durations 1.5, 2.0, 0.5, 3.0
Scenario == <<Micro(1500000), Micro(2000000), Micro(500000), Micro(3000000)>>

\* every element has at most 4 decimals
FourDecimals(values) == \A i \in DOMAIN values : values[i] % Pow10(3) = 0

\* 0.00005, half of the last decimal toFixed(4) keeps
HalfStep == Pow10(3) \div 2

RECURSIVE SeqSum(_)
SeqSum(s) == IF s = <<>> THEN 0 ELSE s[1] + SeqSum(Tail(s))

Occurrences(s, v) == Cardinality({i \in DOMAIN s : s[i] = v})

Elements(s) == {s[i] : i \in DOMAIN s}

\* x <= y for two values near the largest double, neither of them a
\* quotient; no comparison holds for NaN
HugeLeq(x, y) ==
    /\ ~isNaN(x)
    /\ ~isNaN(y)
    /\ IF x.kind = "scaled" /\ y.kind = "scaled"
       THEN x.num * y.den <= y.num * x.den
       ELSE x.kind = "-Infinity" \/ y.kind = "Infinity"

\* C1: for every non-empty sequence S of finite numbers, findInfimum(S) <=
\* calculateMean(S) <= findSupremum(S), the mean being the value
\* calculateMean returns and the extrema the elements findInfimum and
\* findSupremum return; here for sequences of numbers near the largest
\* double, whose means toFixed(4) leaves as they are.
C1_MeanBetweenExtrema ==
    (fn = "calculateMean" /\ Len(args.values) > 0) =>
        /\ HugeLeq(Scaled(findInfimum(args.values), 1), ret)
        /\ HugeLeq(ret, Scaled(findSupremum(args.values), 1))

\* C2: on the empty sequence calculateMean, findSupremum, findInfimum,
\* calculateVariance, calculateStdDev and simpleIntegration (for any
\* interval) return 0.
C2_EmptyIsZero ==
    (/\ fn \in {"calculateMean", "findSupremum", "findInfimum",
                "calculateVariance", "calculateStdDev", "simpleIntegration"}
     /\ args.values = <<>>) => ret = 0

C2_Witness ==
    /\ fn = "findInfimum"
    /\ args.values = <<>>
    /\ ret = 0

\* C3: calculateZScore(x, mean, 0) = 0 for every x and mean, and
\* normalize(v, m, m) = 0 for every v and m.
C3_ZeroGuards ==
    /\ (fn = "calculateZScore" /\ args.stdDev = 0) => ret = 0
    /\ (fn = "normalize" /\ args.max = args.min) =>
           (ret.num = 0 /\ ret.den > 0)

\* normalize(15, 5, 5): the range is empty and the value lies above it
C3_Witness ==
    /\ fn = "normalize"
    /\ args.max = args.min
    /\ args.value > args.min
    /\ ret.num = 0

\* C4: createReal(v) returns isValid = false, value = 0 and an errorMessage
\* exactly when v is NaN, infinite or negative (a negative number carrying
\* the negative-value message), and isValid = true with no errorMessage for
\* every finite v >= 0, zero included.
C4_CreateRealValidity ==
    fn = "createReal" =>
        LET v == args.value
        IN  IF v.kind # "finite" \/ v.v < 0
            THEN /\ ret.isValid = FALSE
                 /\ ret.value = 0
                 /\ "errorMessage" \in DOMAIN ret
                 /\ (v.kind = "finite") =>
                        ret.errorMessage = "Negative values not allowed"
            ELSE /\ ret.isValid = TRUE
                 /\ "errorMessage" \notin DOMAIN ret

\* createReal(0) is valid
C4_Witness ==
    /\ fn = "createReal"
    /\ args.value = Finite(0)
    /\ ret.isValid = TRUE
    /\ ret.value = 0

\* C5: sortReals(S) has the length of S, holds every value as often as S
\* does, and is in non-decreasing order.
C5_SortedPermutation ==
    fn = "sortReals" =>
        /\ Len(ret) = Len(args.values)
        /\ \A v \in Elements(args.values) \cup Elements(ret) :
               Occurrences(ret, v) = Occurrences(args.values, v)
        /\ \A i \in 1 .. Len(ret) - 1 : ret[i] <= ret[i + 1]

\* a descending input with a repeated value comes back ascending
C5_Witness ==
    /\ fn = "sortReals"
    /\ args.values = <<Micro(3000000), Micro(1500000), Micro(1500000), Micro(69)>>
    /\ ret = <<Micro(69), Micro(1500000), Micro(1500000), Micro(3000000)>>

\* the population variance of a non-empty sequence, from the exact mean
\* sum / N: the sum of (N * xi - sum)^2 over N^3, rounded to 4 decimals
RECURSIVE SquaredDeviations(_, _, _)
SquaredDeviations(values, sum, i) ==
    IF i > Len(values) THEN WideZero
    ELSE LET dev == Len(values) * values[i] - sum
         IN  WideAdd(WideMul(dev, dev), SquaredDeviations(values, sum, i + 1))

PopulationVariance(values) ==
    LET N == Len(values)
    IN  WideToFixed(SquaredDeviations(values, SeqSum(values), 1), N * N * N, 4)

\* C6: for every non-empty sequence S of N numbers with mean mu = (sum of S)/N,
\* calculateVariance(S) is the population variance sum((xi - mu)^2)/N rounded
\* to 4 decimals; [1.5, 2.0, 0.5, 3.0] gives 0.8125.
C6_PopulationVariance ==
    (fn = "calculateVariance" /\ Len(args.values) > 0) =>
        /\ ret = PopulationVariance(args.values)
        /\ args.values = Scenario => ret = Micro(812500)

\* C7: calculateStdDev(S) is the non-negative square root of the value
\* calculateVariance(S) returns, rounded to 4 decimals: with r the result in
\* units of 0.0001 and v the variance, r is the integer nearest sqrt(10 * v).
C7_StdDevIsRoundedRoot ==
    fn = "calculateStdDev" =>
        LET v == calculateVariance(args.values)
            r == ret \div Pow10(3)
        IN  /\ ret >= 0
            /\ ret % Pow10(3) = 0
            /\ (2 * r + 1) * (2 * r + 1) > 40 * v
            /\ r > 0 => (2 * r - 1) * (2 * r - 1) <= 40 * v

\* the scenario: variance 0.8125, deviation 0.9014 (the root is 0.90138...)
C7_Witness ==
    /\ fn = "calculateStdDev"
    /\ args.values = Scenario
    /\ calculateVariance(args.values) = Micro(812500)
    /\ ret = Micro(901400)

\* C8: for every non-empty sequence S of N numbers calculateMean(S) is the
\* sum of S over N rounded to 4 decimals, that is a multiple of 0.0001 at most
\* 0.00005 away from sum / N; [1.5, 2.0, 0.5, 3.0] gives 1.75.
C8_MeanIsRoundedQuotient ==
    (fn = "calculateMean" /\ Len(args.values) > 0) =>
        LET N    == Len(args.values)
            sum  == SeqSum(args.values)
            step == Pow10(3)
            err  == Abs(ret * N - sum)
        IN  /\ ret % step = 0
            /\ 2 * err <= step * N
            /\ args.values = Scenario => ret = Micro(1750000)

\* (0.5 + 0.5 + 1.5) / 3 = 0.83333... comes back as 0.8333
C8_Witness ==
    /\ fn = "calculateMean"
    /\ args.values = <<Micro(500000), Micro(500000), Micro(1500000)>>
    /\ ret = Micro(833300)

\* C9: for every non-empty sequence S, findSupremum(S) is an element of S
\* that is >= every element and findInfimum(S) is an element of S that is <=
\* every element; the value is the input value itself, not rounded.
C9_ExtremaAreElements ==
    /\ (fn = "findSupremum" /\ Len(args.values) > 0) =>
           /\ ret \in Elements(args.values)
           /\ \A e \in Elements(args.values) : ret >= e
    /\ (fn = "findInfimum" /\ Len(args.values) > 0) =>
           /\ ret \in Elements(args.values)
           /\ \A e \in Elements(args.values) : ret <= e

\* the infimum of [0.5, 0.000069, 0.014211] is 0.000069 with all 6 decimals
C9_Witness ==
    /\ fn = "findInfimum"
    /\ args.values = <<Micro(500000), Micro(69), Micro(14211)>>
    /\ ret = Micro(69)

\* C10: clampReal(value, min, max) is min if value < min, otherwise max if
\* value > max, otherwise value; whenever min <= max the result lies in
\* [min, max]; clampReal(15, 0, 10) = 10, clampReal(-5, 0, 10) = 0 and
\* clampReal(5, 0, 10) = 5.
C10_Clamp ==
    fn = "clampReal" =>
        LET value == args.value
            min   == args.min
            max   == args.max
        IN  /\ value < min => ret = min
            /\ (~(value < min) /\ value > max) => ret = max
            /\ (~(value < min) /\ ~(value > max)) => ret = value
            /\ min <= max => (min <= ret /\ ret <= max)
            /\ (min = 0 /\ max = 10 * Unit) =>
                   /\ value = 15 * Unit => ret = 10 * Unit
                   /\ value = -5 * Unit => ret = 0
                   /\ value = 5 * Unit => ret = 5 * Unit

\* clampReal(15, 0, 10) = 10
C10_Witness ==
    /\ fn = "clampReal"
    /\ args = [value |-> 15 * Unit, min |-> 0, max |-> 10 * Unit]
    /\ ret = 10 * Unit

\* exact comparisons of products (x, y in limbs)
WideSub(x, y) == WideAdd(x, WideScale(-1, y))

WideLeq(x, y) == WideFloor(WideSub(y, x)) >= 0

WideEq(x, y) == WideLeq(x, y) /\ WideLeq(y, x)

\* |x - y| <= b
WideWithin(x, y, b) ==
    /\ WideLeq(WideSub(x, y), b)
    /\ WideLeq(WideSub(y, x), b)

\* C11: for every value and every bounds with max # min, normalize(value,
\* min, max) is (value - min) / (max - min) clamped into [0, 1], so that it
\* lies in [0, 1]: 0 when the quotient is negative, 1 when it exceeds 1,
\* and otherwise the quotient itself, with all its decimals; here for
\* arguments near the largest double, whose differences are whole
\* multiples of 2^1021.
C11_NormalizeIsClampedQuotient ==
    (fn = "normalize" /\ args.max # args.min) =>
        LET n == args.value - args.min
            d == args.max - args.min
        IN  /\ ret.kind = "ratio"
            /\ ret.den > 0
            /\ 0 <= ret.num /\ ret.num <= ret.den
            /\ Sgn(n) * Sgn(d) < 0 => ret.num = 0
            /\ (Sgn(n) * Sgn(d) > 0 /\ Abs(n) > Abs(d)) => ret.num = ret.den
            /\ (Sgn(n) * Sgn(d) >= 0 /\ Abs(n) <= Abs(d)) =>
                   ret.num * d = n * ret.den

\* C12: for every x, mean and non-zero stdDev, calculateZScore(x, mean,
\* stdDev) is (x - mean) / stdDev rounded to 4 decimals: a multiple of 0.0001
\* at most 0.00005 away from the quotient; calculateZScore(3.0, 1.75, 0.9014)
\* is 1.3867.
C12_ZScoreIsRoundedQuotient ==
    (fn = "calculateZScore" /\ args.stdDev # 0) =>
        /\ ret % Pow10(3) = 0
        /\ WideWithin(WideMul(ret, args.stdDev),
                      WideMul(args.value - args.mean, Unit),
                      WideMul(HalfStep, Abs(args.stdDev)))
        /\ args = [value |-> 3 * Unit, mean |-> Micro(1750000),
                   stdDev |-> Micro(901400)] => ret = Micro(1386700)

C12_Witness ==
    /\ fn = "calculateZScore"
    /\ args = [value |-> 3 * Unit, mean |-> Micro(1750000),
               stdDev |-> Micro(901400)]
    /\ ret = Micro(1386700)

\* C13: for every non-empty S and every interval w, simpleIntegration(S, w)
\* is the sum of the products xi * w rounded to 4 decimals: a multiple of
\* 0.0001 at most 0.00005 away from w * (x1 + ... + xn); with the interval
\* left out it is the sum of S rounded the same way, 7.0 for the scenario.
C13_IntegrationIsRoundedSum ==
    (fn = "simpleIntegration" /\ Len(args.values) > 0) =>
        /\ ret % Pow10(3) = 0
        /\ "interval" \in DOMAIN args =>
               WideWithin(WideMul(ret, Unit),
                          WideMul(SeqSum(args.values), args.interval),
                          WideMul(HalfStep, Unit))
        /\ "interval" \notin DOMAIN args =>
               /\ 2 * Abs(ret - SeqSum(args.values)) <= Pow10(3)
               /\ FourDecimals(args.values) => ret = SeqSum(args.values)
               /\ args.values = Scenario => ret = 7 * Unit

\* the scenario with the interval left out, and a sum that the interval 0.5
\* halves and the rounding then moves: 0.5 * (0.000069 + 0.014211) = 0.00714
C13_Witness ==
    \/ /\ fn = "simpleIntegration"
       /\ args = [values |-> Scenario]
       /\ ret = 7 * Unit
    \/ /\ fn = "simpleIntegration"
       /\ args = [values |-> <<Micro(69), Micro(14211)>>,
                  interval |-> Micro(500000)]
       /\ ret = Micro(7100)

\* the smoothing factor of a call: the argument, or the default when omitted
AlphaOf(a) == IF "alpha" \in DOMAIN a THEN a.alpha ELSE 3 * Pow10(6)

\* C14: movingAverage(previous, new, alpha) is (1 - alpha) * previous +
\* alpha * new rounded to 4 decimals, a multiple of 0.0001 at most 0.00005
\* away from it, for every alpha, inside [0, 1] or not, and with alpha = 0.3
\* when the argument is omitted; movingAverage(5.0, 8.0, 0.3) is 5.9.
C14_MovingAverageIsRoundedBlend ==
    fn = "movingAverage" =>
        LET alpha == AlphaOf(args)
        IN  /\ ret % Pow10(3) = 0
            /\ WideWithin(WideMul(ret, Unit),
                          WideAdd(WideMul(Unit - alpha, args.previousAverage),
                                  WideMul(alpha, args.newValue)),
                          WideMul(HalfStep, Unit))
            /\ (args.previousAverage = 5 * Unit /\ args.newValue = 8 * Unit
                /\ alpha = 3 * Pow10(6)) => ret = 59 * Pow10(6)

\* movingAverage(5.0, 8.0) = 5.9 by the default, and movingAverage(5.0, 8.0,
\* 1.5) = 9.5, outside the interval between the two arguments
C14_Witness ==
    /\ fn = "movingAverage"
    /\ args.previousAverage = 5 * Unit /\ args.newValue = 8 * Unit
    /\ \/ "alpha" \notin DOMAIN args /\ ret = 59 * Pow10(6)
       \/ "alpha" \in DOMAIN args /\ args.alpha = 15 * Pow10(6)
          /\ ret = 95 * Pow10(6)

\* C15: for every finite v >= 0, createReal(v).value is v rounded to 6
\* decimals: a multiple of 0.000001 at most 0.0000005 away from v, and the
\* larger of the two neighbours when v lies exactly halfway between them;
\* createReal(3.1234567).value is 3.123457.
C15_CreateRealRoundsToSixDecimals ==
    (fn = "createReal" /\ args.value.kind = "finite" /\ args.value.v >= 0) =>
        LET v == args.value.v
        IN  /\ ret.value % 10 = 0
            /\ 2 * Abs(ret.value - v) <= 10
            /\ 2 * Abs(ret.value - v) = 10 => ret.value > v
            /\ v = 31234567 => ret.value = 31234570

\* createReal(3.1234567), rounded up, and createReal(0.0078125), halfway
\* between 0.007812 and 0.007813
C15_Witness ==
    /\ fn = "createReal"
    /\ \/ args.value = Finite(31234567) /\ ret.value = 31234570
       \/ args.value = Finite(78125) /\ ret.value = 78130

\* C16: sortReals leaves the array it is given as it was, element by
\* element, and returns another array than its argument, which holds the
\* sorted elements.
C16_SortLeavesArgument ==
    fn = "sortReals" =>
        /\ heap[1] = args.values
        /\ ref # 1
        /\ ref \in DOMAIN heap
        /\ heap[ref] = ret

\* an array out of order was sorted: the argument still is out of order
C16_Witness ==
    /\ fn = "sortReals"
    /\ args.values = <<3 * Unit, Micro(500000), 2 * Unit>>
    /\ heap[1] = <<3 * Unit, Micro(500000), 2 * Unit>>
    /\ heap[ref] = <<Micro(500000), 2 * Unit, 3 * Unit>>

\* C17: sortReals is stable: elements of equal value stand in the result in
\* the order they had in the argument (the loops, run on elements that
\* carry their original position, return the values of ret with the
\* positions of equal values increasing).
C17_SortIsStable ==
    fn = "sortReals" =>
        LET tracked == sortRealsTracked(args.values)
        IN  /\ Len(tracked) = Len(ret)
            /\ \A k \in 1 .. Len(ret) :
                   /\ tracked[k].value = ret[k]
                   /\ args.values[tracked[k].index] = ret[k]
            /\ \A k \in 1 .. Len(ret), l \in 1 .. Len(ret) :
                   (k < l /\ tracked[k].value = tracked[l].value) =>
                       tracked[k].index < tracked[l].index

\* two equal values with a smaller one after them: all three were moved
C17_Witness ==
    /\ fn = "sortReals"
    /\ args.values = <<2 * Unit, 2 * Unit, Micro(500000)>>
    /\ ret = <<Micro(500000), 2 * Unit, 2 * Unit>>
    /\ sortRealsTracked(args.values)[2].index = 1
    /\ sortRealsTracked(args.values)[3].index = 2

\* C18: sorting a sorted result changes nothing:
\* sortReals(sortReals(S)) = sortReals(S).
C18_SortIsIdempotent ==
    fn = "sortReals" => sortReals(ret) = ret

\* a result that differs from its argument
C18_Witness ==
    /\ fn = "sortReals"
    /\ args.values = <<3 * Unit, 2 * Unit, Micro(500000), Micro(1500000)>>
    /\ ret = <<Micro(500000), Micro(1500000), 2 * Unit, 3 * Unit>>
    /\ sortReals(ret) = ret

\* a result that is a number other than NaN, Infinity and -Infinity
IsFiniteNumber(x) == x.kind \in {"scaled", "ratio", "finite"}

\* C19: every aggregate function returns a finite number (sortReals a
\* sequence of finite numbers) for every finite input.
C19_AggregatesReturnFinite ==
    fn # "none" =>
        IF fn = "sortReals"
        THEN \A k \in 1 .. Len(ret) : IsFiniteNumber(ret[k])
        ELSE IsFiniteNumber(ret)

\* C20: for every non-empty list of sessions, each of total hours, mean
\* duration, supremum, infimum, mean efficiency and latest z-score stands in
\* the PDF's table as the same figure as on the dashboard's cards (for the
\* mean duration: as on the card's headline or on the line under it).
C20_PdfFiguresAreDashboardFigures ==
    saved.written =>
        LET cards == StudyStats(saved.sessions)
            table == generateStudyPDF(saved.sessions)
        IN  /\ table.totalHours = cards.totalHours
            /\ table.avgDuration \in {cards.avgDuration, cards.avgDurationFormula}
            /\ table.supDuration = cards.supDuration
            /\ table.infDuration = cards.infDuration
            /\ table.avgEfficiency = cards.avgEfficiency
            /\ table.zScoreLatest = cards.latestZScore

\* C21: for 3 sessions or more, the figures of the prompt are the core's:
\* the mean duration is calculateMean(durations) printed with 2 decimals
\* (the dashboard's figure), the mean efficiency is the percentage of
\* calculateMean(efficiencies), and the range of the durations is
\* [findInfimum(durations), findSupremum(durations)].
C21_PromptFiguresAreCoreFigures ==
    \A c \in Clients :
        (edge[c] # NoRequest /\ edge[c].prompt # NoPrompt) =>
            LET sessions == edge[c].body.sessions.items
                prompt == edge[c].prompt
                durations == Column(sessions, "duration_hours")
                efficiencies == Column(sessions, "efficiency_score")
                cards == StudyStats(sessions)
            IN  /\ prompt.avgDuration = Figure(calculateMean(durations), 2)
                /\ prompt.avgDuration = cards.avgDuration
                /\ prompt.avgEfficiency
                       = Percent(calculateMean(efficiencies))
                /\ prompt.minDuration = Figure(findInfimum(durations), 2)
                /\ prompt.maxDuration = Figure(findSupremum(durations), 2)

\* what a call of function f returns for the array values when it runs alone
Alone(f, values) ==
    IF f = "calculateMean" THEN calculateMean(values)
    ELSE IF f = "findSupremum" THEN findSupremum(values)
    ELSE IF f = "findInfimum" THEN findInfimum(values)
    ELSE simpleIntegration(values, DefaultInterval)

\* C22: the core keeps no state shared between calls: however the steps of
\* calls in progress interleave, each call returns what it returns when it
\* runs alone, and two calls with the same arguments return the same.
C22_CallsDoNotInterfere ==
    /\ \A c \in Callers :
        frames[c].pc = "done" =>
            IF frames[c].f = "sortReals"
            THEN frames[c].sorted = sortReals(frames[c].values)
            ELSE frames[c].result = Alone(frames[c].f, frames[c].values)
    /\ \A c, d \in Callers :
        (/\ frames[c].pc = "done" /\ frames[d].pc = "done"
         /\ frames[c].f = frames[d].f
         /\ frames[c].values = frames[d].values) =>
            /\ frames[c].result = frames[d].result
            /\ frames[c].sorted = frames[d].sorted

\* a call has returned the mean 1.0 of [1.5, 0.5] while another call, of
\* findSupremum on [0.5, 1.5], is in the middle of its loop
C22_Witness ==
    \E c, d \in Callers :
        /\ frames[c].pc = "done" /\ frames[c].f = "calculateMean"
        /\ frames[c].values = <<Micro(1500000), Micro(500000)>>
        /\ frames[c].result = Unit
        /\ frames[d].pc = "loop" /\ frames[d].f = "findSupremum"
        /\ frames[d].values = <<Micro(500000), Micro(1500000)>>
        /\ frames[d].i = 2

\* the flag a helper returned
FlagOf(r) ==
    IF "commutative" \in DOMAIN r THEN r.commutative
    ELSE IF "associative" \in DOMAIN r THEN r.associative
    ELSE r.distributive

\* C23 as stated: each of addReal, associativeAddition and
\* distributiveProperty returns both of the results it computed and a flag,
\* and the flag is true exactly when the two results differ by less than
\* 1e-10 in absolute value.
C23_HelpersReturnBothResults ==
    fn \in {"addReal", "associativeAddition", "distributiveProperty"} =>
        /\ {"result1", "result2"} \subseteq DOMAIN ret
        /\ FlagOf(ret) <=>
               WithinTolerance(ExactDifference(ret.result1, ret.result2))

\* C23, amended: associativeAddition returns (a + b) + c and a + (b + c),
\* distributiveProperty returns a * (b + c) and a * b + a * c, each with a
\* flag that is true exactly when the two results differ by less than
\* 1e-10 in absolute value; addReal returns a + b alone, with the flag that
\* is true exactly when a + b and b + a differ by less than 1e-10.
C23_FlagTellsAgreement ==
    /\ fn = "addReal" =>
        /\ DOMAIN ret = {"result", "commutative"}
        /\ ret.result = AddDouble(args.a, args.b)
        /\ ret.commutative <=>
               WithinTolerance(ExactDifference(ret.result,
                                               AddDouble(args.b, args.a)))
    /\ fn = "associativeAddition" =>
        /\ ret.result1 = AddDouble(AddDouble(args.a, args.b), args.c)
        /\ ret.result2 = AddDouble(args.a, AddDouble(args.b, args.c))
        /\ ret.associative <=>
               WithinTolerance(ExactDifference(ret.result1, ret.result2))
    /\ fn = "distributiveProperty" =>
        /\ ret.result1 = MulDouble(args.a, AddDouble(args.b, args.c))
        /\ ret.result2 = AddDouble(MulDouble(args.a, args.b),
                                   MulDouble(args.a, args.c))
        /\ ret.distributive <=>
               WithinTolerance(ExactDifference(ret.result1, ret.result2))

\* (1 + 2^-53) + 2^-53 = 1 and 1 + (2^-53 + 2^-53) = 1 + 2^-52 are returned
\* with the flag true
C23_Witness ==
    /\ fn = "associativeAddition"
    /\ args = [a |-> Double(0, 1, 0), b |-> Double(0, 0, 2),
               c |-> Double(0, 0, 2)]
    /\ ret.result1 = Double(0, 1, 0)
    /\ ret.result2 = Double(0, 1, 4)
    /\ ret.associative

(***************************************************************************)
(* C24: while a delete request for a session is in flight, deletingId is   *)
(* that session's id, whatever other deletions start or complete in the    *)
(* meantime.                                                               *)
(***************************************************************************)
C24_DeletingIdIsInFlight ==
    \A k \in Awaited("handleDeleteSession") :
        hist.deletingId = net[k].sessionId

\* the number a text of the duration field is parsed to is a valid duration:
\* it is a number, finite and not negative
ValidDuration(text) ==
    LET number == parseFloat(text)
    IN  number.kind = "finite" /\ number.v >= 0

\* a score between the bounds of its slider
Within(score, min, max) ==
    IF score < min THEN min ELSE IF score > max THEN max ELSE score

\* the data of the request that awaits onSubmit is the form's: the duration
\* is valid and rounded to 6 decimals, the scores are clamped
C25_SubmittedDataIsValid ==
    \A k \in Awaited("handleSubmit") :
        LET data == net[k].data
            number == parseFloat(form.durationMinutes)
        IN  /\ form.isSubmitting
            /\ ValidDuration(form.durationMinutes)
            /\ data.durationMinutes = RoundHalfAway(number.v, 10) * 10
            /\ data.moodScore = Within(form.moodScore, 0, 10 * Unit)
            /\ data.focusScore = Within(form.focusScore, 0, 10 * Unit)
            /\ data.efficiencyScore = Within(form.efficiencyScore, 0, Unit)
            /\ data.notes = form.notes

\* a step of handleSubmit calls onSubmit when the duration is valid, and
\* otherwise leaves the requests and the form as they are
C25_SubmitStep ==
    handleSubmit =>
        IF ValidDuration(form.durationMinutes)
        THEN /\ Len(net') = Len(net) + 1
             /\ net'[Len(net')].handler = "handleSubmit"
        ELSE /\ net' = net
             /\ form' = form
             /\ ~form'.isSubmitting

(***************************************************************************)
(* C25: handleSubmit calls onSubmit only when the parsed duration is       *)
(* valid, passing the duration rounded to 6 decimals and the scores        *)
(* clamped to their ranges; when the duration is unparsable, negative or   *)
(* infinite, onSubmit is not called, the fields keep their values and      *)
(* isSubmitting is false when handleSubmit returns.                        *)
(***************************************************************************)
C25_SubmitOnlyValidDurations ==
    [](C25_SubmittedDataIsValid) /\ [][C25_SubmitStep]_vars

\* a submission of "abc" was refused, and then a duration of 12.3456789
\* minutes is submitted as 12.345679
C25_Witness ==
    /\ \E k \in Awaited("handleSubmit") :
          net[k].data.durationMinutes = Micro(12345679)
    /\ form.durationMinutes
           = <<"1", "2", ".", "3", "4", "5", "6", "7", "8", "9">>
    /\ form.isSubmitting
    /\ toast = "Value is NaN"

(***************************************************************************)
(* C26: once fetchRecommendations has succeeded, the Dashboard's           *)
(* aiRecommendations holds the text the component shows, which is what     *)
(* handleExportPDF passes to generateStudyPDF for the AI section.          *)
(***************************************************************************)
C26_DashboardHoldsRecommendations ==
    ai.recommendations # "" => dash.aiRecommendations = ai.recommendations

\* the request is a POST whose body holds a list of 3 sessions or more
C27_CarriesThree(request) ==
    /\ request.method = "POST"
    /\ request.body.json = "object"
    /\ "sessions" \in DOMAIN request.body
    /\ request.body.sessions.isArray
    /\ Len(request.body.sessions.items) >= 3

\* the request was answered without a prompt and without the gateway
C27_Refused(request) ==
    /\ request.at = "responded"
    /\ ~request.contacted
    /\ request.prompt = NoPrompt
    /\ request.recommendations = ""

\* every request without a list of 3 sessions is refused with status 400
C27_FunctionRefuses ==
    \A c \in Clients :
        (edge[c] # NoRequest /\ edge[c].at # "req.json") =>
            /\ ~C27_CarriesThree(edge[c]) =>
                   C27_Refused(edge[c]) /\ edge[c].status = 400
            /\ edge[c].contacted => C27_CarriesThree(edge[c])

C27_RequestsCarryThree ==
    /\ \A k \in Awaited("fetchRecommendations") :
          Len(net[k].body.sessions.items) >= 3
    /\ edge["page"] # NoRequest => C27_CarriesThree(edge["page"])

\* with fewer than 3 sessions on the page, no step sets isLoading or sends
\* a request to the function, and a step changes isLoading or
\* recommendations only when it settles a request sent earlier
C27_ClientStep ==
    Len(dash.sessions) < 3 =>
        /\ ai'.isLoading => ai.isLoading
        /\ Cardinality({k \in 1 .. Len(net') :
                            net'[k].handler = "fetchRecommendations"})
               <= Cardinality(Awaited("fetchRecommendations"))
        /\ Awaited("fetchRecommendations") = {} => ai' = ai

(***************************************************************************)
(* C27: the gateway is not contacted for fewer than 3 sessions.  The       *)
(* function answers a request without a session list, or with fewer than   *)
(* 3 sessions, with status 400, without building a prompt or calling the   *)
(* gateway; no request of the page carries fewer than 3 sessions; and      *)
(* while the page has fewer than 3 sessions no step changes isLoading or   *)
(* recommendations or invokes the function.                                *)
(***************************************************************************)
C27_GatewayNeedsThreeSessions ==
    /\ [](C27_FunctionRefuses /\ C27_RequestsCarryThree)
    /\ [][C27_ClientStep]_vars

\* every request without a list of 3 sessions is refused: a preflight with
\* status 200, a POST whose body is an object without sessions, or with a
\* list of fewer than 3, with 400, a body that is not JSON or null with
\* 500, and sessions that are no list with 400 when the value is falsy or
\* has a length under 3, and with 500 otherwise
C27_FunctionRefusesEach ==
    \A c \in Clients :
        (edge[c] # NoRequest /\ edge[c].at # "req.json") =>
            LET request == edge[c]
                body == request.body
            IN  /\ ~C27_CarriesThree(request) =>
                       /\ C27_Refused(request)
                       /\ request.status =
                              IF request.method = "OPTIONS" THEN 200
                              ELSE IF body.json # "object" THEN 500
                              ELSE IF "sessions" \notin DOMAIN body THEN 400
                              ELSE IF body.sessions.isArray THEN 400
                              ELSE IF ~body.sessions.truthy THEN 400
                              ELSE IF body.sessions.length = <<>> THEN 500
                              ELSE IF body.sessions.length[1] < 3 THEN 400
                              ELSE 500
                /\ request.contacted => C27_CarriesThree(request)

(***************************************************************************)
(* C27, as amended: the gateway is not contacted for fewer than 3          *)
(* sessions.  The function answers a POST whose body is an object without  *)
(* sessions, or with a list of fewer than 3 sessions, with status 400; it  *)
(* answers a preflight with 200, a body that is not JSON or is null with   *)
(* 500, and sessions that are no list with 400 when the value is falsy or  *)
(* has a length under 3 and with 500 otherwise; none of these builds a     *)
(* prompt or calls the gateway.  No request of the page carries fewer than *)
(* 3 sessions, and while the page has fewer than 3 sessions no step        *)
(* changes isLoading or recommendations or invokes the function.           *)
(***************************************************************************)
C27_GatewayNeedsAListOfThree ==
    /\ [](C27_FunctionRefusesEach /\ C27_RequestsCarryThree)
    /\ [][C27_ClientStep]_vars

\* the function has refused the other client's request of 2 sessions, and
\* the page, left with 2 sessions after it had obtained recommendations,
\* has refused to ask for new ones
C27_Witness ==
    /\ edge["other"] # NoRequest
    /\ edge["other"].at = "responded"
    /\ edge["other"].method = "POST"
    /\ edge["other"].body.json = "object"
    /\ "sessions" \in DOMAIN edge["other"].body
    /\ edge["other"].body.sessions.isArray
    /\ Len(edge["other"].body.sessions.items) = 2
    /\ edge["other"].status = 400
    /\ Len(dash.sessions) = 2
    /\ ai.recommendations # ""
    /\ toast = "Minimal 3 sesi belajar diperlukan untuk rekomendasi AI"
    /\ ~ai.isLoading

\* a busy flag is set only while its handler awaits a request
C28_BusyOnlyInFlight ==
    /\ form.isSubmitting => Awaited("handleSubmit") # {}
    /\ ai.isLoading => Awaited("fetchRecommendations") # {}
    /\ dash.isExporting => Awaited("handleExportPDF") # {}
    /\ hist.isSaving => Awaited("handleSaveEdit") # {}

(***************************************************************************)
(* C28: when the awaited requests settle, each of isSubmitting, isLoading  *)
(* (of the recommendations), isExporting and isSaving, once set, becomes   *)
(* false again, whether the request succeeded or failed; and a flag is set *)
(* only while its handler is in flight.  (That a flag, whenever it is set, *)
(* is false again later is to say that it is false again and again.)      *)
(***************************************************************************)
C28_BusyFlagsAreCleared ==
    /\ []C28_BusyOnlyInFlight
    /\ []<>(~form.isSubmitting)
    /\ []<>(~ai.isLoading)
    /\ []<>(~dash.isExporting)
    /\ []<>(~hist.isSaving)

\* an update has failed and isSaving is false again, while the form is
\* submitting
C28_Witness ==
    /\ toast = "Gagal memperbarui sesi belajar"
    /\ ~hist.isSaving
    /\ Awaited("handleSaveEdit") = {}
    /\ form.isSubmitting
    /\ Awaited("handleSubmit") # {}

\* the positions, in the sessions the history is passed, of the sessions of
\* the week shown
InWeek ==
    {k \in 1 .. Len(hist.sessions) :
        WeekOf(hist.sessions[k].created_at) = hist.currentWeek}

\* the sessions of the week shown, all of them, in the order they are
\* passed in
RECURSIVE WeekFrom(_)
WeekFrom(k) ==
    IF k > Len(hist.sessions) THEN <<>>
    ELSE IF k \in InWeek THEN <<hist.sessions[k]>> \o WeekFrom(k + 1)
    ELSE WeekFrom(k + 1)

\* a session passes the filter chosen
Passes(session) ==
    CASE hist.filterBy = "high-efficiency" ->
             session.efficiency_score >= Micro(700000)
      [] hist.filterBy = "low-efficiency" ->
             session.efficiency_score < Micro(700000)
      [] hist.filterBy = "long-duration" -> session.duration_hours >= Unit
      [] hist.filterBy = "short-duration" -> session.duration_hours < Unit
      [] OTHER -> TRUE

\* the summary is that of all sessions of the week
C29_SummaryOfWholeWeek ==
    LET durations == Column(WeekFrom(1), "duration_hours")
        efficiencies == Column(WeekFrom(1), "efficiency_score")
        stats == WeeklyHistory(hist).weekStats
    IN  /\ stats.totalSessions = Cardinality(InWeek)
        /\ stats.totalHours = simpleIntegration(durations, Unit)
        /\ stats.avgDuration = calculateMean(durations)
        /\ stats.avgEfficiency = calculateMean(efficiencies)
        /\ stats.supDuration = findSupremum(durations)
        /\ stats.infDuration = findInfimum(durations)

\* the sessions listed are the sessions of the week that pass the filter,
\* each once
C29_ListedPassFilter ==
    LET listed == WeeklyHistory(hist).sortedSessions
    IN  /\ {listed[k] : k \in 1 .. Len(listed)}
               = {hist.sessions[k] : k \in {j \in InWeek :
                                               Passes(hist.sessions[j])}}
        /\ \A i, j \in 1 .. Len(listed) : listed[i] = listed[j] => i = j

\* a step that changes the filter or the sort leaves the summary as it is
C29_SummaryKept ==
    (hist'.filterBy # hist.filterBy \/ hist'.sortBy # hist.sortBy) =>
        WeeklyHistory(hist').weekStats = WeeklyHistory(hist).weekStats

(***************************************************************************)
(* C29: changing the filter or the sort changes only the sessions listed.  *)
(* The weekly summary is computed from all sessions of the week shown,     *)
(* and the sessions listed are the sessions of that week that pass the     *)
(* filter, each once.                                                      *)
(***************************************************************************)
C29_FilterAndSortChangeOnlyTheList ==
    /\ [](C29_SummaryOfWholeWeek /\ C29_ListedPassFilter)
    /\ [][C29_SummaryKept]_vars

\* of the 2 sessions of the week, the one shorter than an hour is listed,
\* and the summary counts 2
C29_Witness ==
    /\ hist.filterBy = "short-duration"
    /\ hist.sortBy = "duration-desc"
    /\ WeeklyHistory(hist).weekStats.totalSessions = 2
    /\ Len(WeeklyHistory(hist).sortedSessions) = 1

\* the elements of a sequence are all the same
AllEqual(values) ==
    \A i, j \in 1 .. Len(values) : values[i] = values[j]

(***************************************************************************)
(* C30: when all sessions have the same duration, one session included,    *)
(* the latest z-score of the dashboard is 0, and calculateVariance and     *)
(* calculateStdDev of the durations are 0.                                 *)
(***************************************************************************)
C30_EqualDurationsGiveZero ==
    /\ (/\ fn = "StudyStats"
        /\ Len(args.sessions) > 0
        /\ AllEqual(Column(args.sessions, "duration_hours")))
           => /\ ret.latestZScore.value = 0
              /\ ~ret.latestZScore.negative
    /\ (fn \in {"calculateVariance", "calculateStdDev"}
           /\ AllEqual(args.values))
           => ret = 0

\* three sessions of 50 minutes, 0.8333333 hours each, whose mean is
\* rounded to 0.8333
C30_Witness ==
    /\ fn = "StudyStats"
    /\ Len(args.sessions) = 3
    /\ \A k \in 1 .. 3 : args.sessions[k].duration_hours = 8333333
    /\ ret.avgDurationFormula.value = 8333000
    /\ ret.latestZScore.value = 0

====
